---- MODULE Spec2Model ----
(***************************************************************************)
(* Discrete-event simulator of a shared wireless broadcast medium.         *)
(*                                                                         *)
(* Units.  Simulation time is counted in ticks of 10 microseconds (the     *)
(* guard added to the RX timeout, node.py:83) and positions in multiples   *)
(* of the distance light travels in one tick, so that the speed of light   *)
(* (channel.py:34) is one distance unit per tick.  Data rates are in bits  *)
(* per tick.  All configurations are chosen so that distances and          *)
(* durations are whole numbers; floating point rounding is not modelled.   *)
(*                                                                         *)
(* Objects.  Events and packets are heap objects.  An event is named by    *)
(* its event_id, a packet object by a reference into pkts; a packet's id   *)
(* field is shared by the deep copies of the packet.  An optional          *)
(* reference is a sequence of length at most one: None is <<>>.            *)
(***************************************************************************)
EXTENDS Integers, Sequences, FiniteSets, TLC

VARIABLES
    time,            \* Sim.time
    queue,           \* Sim.queue: binary heap of event ids, heapq layout
    halted,          \* "none" while the process runs, else why it ended
    phase,           \* position of main.py: "new", "running", "done"
    config,          \* the run's parameters (Config.get_param)
    events,          \* every Event object constructed, by event_id
    event_count,     \* the Event class's id counter
    pkts,            \* every Packet object constructed, by reference
    packets_count,   \* Packet.__packets_count
    modules_count,   \* Module.__modules_count
    nodes,           \* the Node objects, by module id
    channel,         \* the Channel object: range, nodes, neighbors
    ret,             \* the event returned by the last next_event call
    cancelled,       \* ids of the events removed by cancel_event so far
    log              \* rows written to the log file by the last step

vars == <<time, queue, halted, phase, config, events, event_count, pkts,
          packets_count, modules_count, nodes, channel, ret, cancelled, log>>

(***************************************************************************)
(* Bounds of the model.                                                    *)
(***************************************************************************)
\* events constructed in a run of the whole simulator
MaxEvents == 20
\* events constructed by the driver of the event queue
MaxQEvents == 5
\* nodes registered by the driver of the channel
MaxNodes == 3

\* times at which the driver of the event queue schedules events
QTimes == 0 .. 2

None == <<>>
Some(x) == <<x>>
Ref(o) == o[1]

\* f extended by the value x at the new index n (f has domain 0 .. n-1)
Ext(f, n, x) == [i \in 0 .. n |-> IF i < n THEN f[i] ELSE x]

Range(s) == {s[i] : i \in DOMAIN s}

(***************************************************************************)
(* Event: its constructor and comparison operators.                        *)
(***************************************************************************)
NewEvent(t, type, dst, src, obj, id) ==
    [time |-> t, type |-> type, dst |-> dst, src |-> src, obj |-> obj,
     event_id |-> id]

\* a comparison that ignores event_id
EventLtTimeOnly(a, b) == a.time < b.time

EventLt(a, b) ==
    \/ a.time < b.time
    \/ a.time = b.time /\ a.event_id < b.event_id

EventGt(a, b) == EventLt(b, a)

EventEq(a, b) == a.event_id = b.event_id

(***************************************************************************)
(* heapq, as called by Sim: the heap is a sequence of event ids, position  *)
(* p of the Python list being element p + 1 of the sequence.               *)
(***************************************************************************)
Lt(evs, i, j) == EventLt(evs[i], evs[j])

RECURSIVE SiftDown(_, _, _, _, _)
SiftDown(evs, heap, startpos, pos, newitem) ==
    IF pos > startpos
    THEN LET parentpos == (pos - 1) \div 2
             parent == heap[parentpos + 1]
         IN  IF Lt(evs, newitem, parent)
             THEN SiftDown(evs, [heap EXCEPT ![pos + 1] = parent],
                           startpos, parentpos, newitem)
             ELSE [heap EXCEPT ![pos + 1] = newitem]
    ELSE [heap EXCEPT ![pos + 1] = newitem]

RECURSIVE SiftUpLoop(_, _, _, _, _)
SiftUpLoop(evs, heap, startpos, pos, newitem) ==
    LET endpos == Len(heap)
        childpos == 2 * pos + 1
    IN  IF childpos < endpos
        THEN LET rightpos == childpos + 1
                 c == IF rightpos < endpos
                         /\ ~Lt(evs, heap[childpos + 1], heap[rightpos + 1])
                      THEN rightpos ELSE childpos
             IN  SiftUpLoop(evs, [heap EXCEPT ![pos + 1] = heap[c + 1]],
                            startpos, c, newitem)
        ELSE SiftDown(evs, [heap EXCEPT ![pos + 1] = newitem],
                      startpos, pos, newitem)

SiftUp(evs, heap, pos) == SiftUpLoop(evs, heap, pos, pos, heap[pos + 1])

HeapPush(evs, heap, item) ==
    LET h == Append(heap, item)
    IN  SiftDown(evs, h, 0, Len(h) - 1, item)

\* the heap left by heappop on a non-empty heap; the item returned is
\* HeapTop
HeapPopRest(evs, heap) ==
    LET lastelt == heap[Len(heap)]
        rest == SubSeq(heap, 1, Len(heap) - 1)
    IN  IF rest # <<>>
        THEN SiftUp(evs, [rest EXCEPT ![1] = lastelt], 0)
        ELSE rest

HeapTop(heap) == heap[1]

RECURSIVE HeapifyFrom(_, _, _)
HeapifyFrom(evs, heap, i) ==
    IF i < 0 THEN heap
    ELSE HeapifyFrom(evs, SiftUp(evs, heap, i), i - 1)

\* the list left as list.remove leaves it
HeapifySkipped(evs, heap) == heap

Heapify(evs, heap) == HeapifyFrom(evs, heap, (Len(heap) \div 2) - 1)

\* list.remove(x): the first position holding an element equal to x
ListIndex(evs, heap, e) ==
    LET hits == {i \in DOMAIN heap : EventEq(evs[heap[i]], e)}
    IN  IF hits = {} THEN 0
        ELSE CHOOSE i \in hits : \A j \in hits : i <= j

\* a removal that drops the head of the list instead of position i
ListRemoveHead(heap, i) == Tail(heap)

ListRemoveAt(heap, i) ==
    SubSeq(heap, 1, i - 1) \o SubSeq(heap, i + 1, Len(heap))

(***************************************************************************)
(* The program state as a record, so that a handler that makes several     *)
(* calls is one action.  Once the process has exited nothing more runs.    *)
(***************************************************************************)
Cur ==
    [time |-> time, queue |-> queue, halted |-> halted, events |-> events,
     event_count |-> event_count, pkts |-> pkts,
     packets_count |-> packets_count, modules_count |-> modules_count,
     nodes |-> nodes, channel |-> channel, ret |-> ret,
     cancelled |-> cancelled, log |-> <<>>]

Commit(s) ==
    /\ time' = s.time
    /\ queue' = s.queue
    /\ halted' = s.halted
    /\ events' = s.events
    /\ event_count' = s.event_count
    /\ pkts' = s.pkts
    /\ packets_count' = s.packets_count
    /\ modules_count' = s.modules_count
    /\ nodes' = s.nodes
    /\ channel' = s.channel
    /\ ret' = s.ret
    /\ cancelled' = s.cancelled
    /\ log' = s.log

Halt(s, why) == IF s.halted = "none" THEN [s EXCEPT !.halted = why] ELSE s

\* the exit status of the process for each way it ends: sys.exit(0) when
\* the queue is exhausted, 1 for sys.exit(1) and for an uncaught exception
ExitStatus(why) == IF why = "exhausted" THEN 0 ELSE 1

(***************************************************************************)
(* Sim: schedule_event, next_event, cancel_event.                          *)
(***************************************************************************)
\* schedule_event with the test event.get_time() <= self.time
ScheduleEventNotAfter(s, t, type, dst, src, obj) ==
    IF s.halted # "none" THEN s
    ELSE LET id == s.event_count
             e == NewEvent(t, type, dst, src, obj, id)
             s1 == [s EXCEPT !.events = Ext(s.events, id, e),
                             !.event_count = id + 1]
         IN  IF t <= s.time
             THEN Halt(s1, "schedule_past")
             ELSE [s1 EXCEPT !.queue = HeapPush(s1.events, s.queue, id)]

\* Event(...) followed by sim.schedule_event(event), as every caller does.
\* The error branch evaluates event.get_source.get_id() on a bound method,
\* which raises before sys.exit(1) is reached: the process ends either way.
ScheduleEvent(s, t, type, dst, src, obj) ==
    IF s.halted # "none" THEN s
    ELSE LET id == s.event_count
             e == NewEvent(t, type, dst, src, obj, id)
             s1 == [s EXCEPT !.events = Ext(s.events, id, e),
                             !.event_count = id + 1]
         IN  IF t < s.time
             THEN Halt(s1, "schedule_past")
             ELSE [s1 EXCEPT !.queue = HeapPush(s1.events, s.queue, id)]

NextEvent(s) ==
    IF s.halted # "none" THEN s
    ELSE IF s.queue = <<>>
         THEN Halt(s, "exhausted")
         ELSE LET id == HeapTop(s.queue)
              IN  [s EXCEPT !.queue = HeapPopRest(s.events, s.queue),
                            !.time = s.events[id].time,
                            !.ret = Some(id)]

\* cancel_event with the ValueError swallowed: it returns normally when
\* the event is not in the queue
CancelEventIgnoring(s, eref) ==
    IF s.halted # "none" THEN s
    ELSE LET i == IF eref = None THEN 0
                  ELSE ListIndex(s.events, s.queue, s.events[Ref(eref)])
         IN  IF i = 0
             THEN [s EXCEPT !.cancelled = s.cancelled \cup Range(eref)]
             ELSE [s EXCEPT
                     !.queue = Heapify(s.events, ListRemoveAt(s.queue, i)),
                     !.cancelled = s.cancelled \cup {s.queue[i]}]

\* cancel_event(event), event given by reference (None when the caller
\* holds no event); cancelled records the events for which it returned
CancelEvent(s, eref) ==
    IF s.halted # "none" THEN s
    ELSE LET i == IF eref = None THEN 0
                  ELSE ListIndex(s.events, s.queue, s.events[Ref(eref)])
         IN  IF i = 0
             THEN Halt(s, "cancel_missing")
             ELSE [s EXCEPT
                     !.queue = Heapify(s.events, ListRemoveAt(s.queue, i)),
                     !.cancelled = s.cancelled \cup {s.queue[i]}]

(***************************************************************************)
(* Program constants, in the units of the model.                           *)
(***************************************************************************)
\* Channel.SOL: distance units travelled per tick
SOL == 1
\* the guard added to the RX timeout: 10e-6 seconds is one tick
TimeoutGuard == 1

\* values the inter-arrival, packet size and processing time
\* distributions can return (Distribution.get_value)
InterarrivalDraws == {1, 5}
SizeDraws == {1, 2}
ProcDraws == {0, 1}

(***************************************************************************)
(* Log: the rows written with the default switches of Log.__init__         *)
(* (packets, queue drops and arrivals on; queue lengths and states off).   *)
(***************************************************************************)
LogRow(s, src, dst, kind, size) ==
    [s EXCEPT !.log = Append(@, [time |-> s.time, src |-> src, dst |-> dst,
                                 event |-> kind, size |-> size])]

LogPacket(s, src, dst, p) == LogRow(s, src, dst, s.pkts[p].state, s.pkts[p].size)

LogQueueDrop(s, n, size) == LogRow(s, n, n, "QUEUE_DROPPED", size)

LogArrival(s, n, size) == LogRow(s, n, n, "GENERATED", size)

(***************************************************************************)
(* Packet.                                                                 *)
(***************************************************************************)
\* Packet(size, duration): a new object with the next packet id
NewPacket(s, size, duration) ==
    LET p == Len(s.pkts) + 1
    IN  [s EXCEPT !.pkts = Append(@, [id |-> s.packets_count, size |-> size,
                                      duration |-> duration,
                                      state |-> "RECEIVING"]),
                  !.packets_count = @ + 1]

\* the packet passed on by reference, without a copy
SameReference(s, p) == [s |-> s, ref |-> p]

\* a copy made as a new Packet, which takes the next packet id
DeepCopyNewId(s, p) ==
    [s |-> [s EXCEPT !.pkts = Append(@, [s.pkts[p] EXCEPT
                                           !.id = s.packets_count]),
                     !.packets_count = @ + 1],
     ref |-> Len(s.pkts) + 1]

\* copy.deepcopy(packet): a new object with the fields of the original;
\* the state with the new object, and the reference of the new object
DeepCopy(s, p) ==
    [s |-> [s EXCEPT !.pkts = Append(@, s.pkts[p])], ref |-> Len(s.pkts) + 1]

SetState(s, p, st) == [s EXCEPT !.pkts[p].state = st]

(***************************************************************************)
(* Channel.                                                                *)
(***************************************************************************)
\* math.sqrt on the perfect squares the configurations produce
Sqrt(n) == CHOOSE r \in 0 .. n : r * r = n

Distance(a, b) == Sqrt((a.x - b.x) * (a.x - b.x) + (a.y - b.y) * (a.y - b.y))

NewChannel(id, range) ==
    [id |-> id, range |-> range, nodes |-> <<>>, neighbors |-> <<>>]

\* the loop of recompute_neighbors from position i of channel.nodes on;
\* mine is new_node_neighbors
\* recompute_neighbors with the test distance <= range
RECURSIVE RecomputeLoopWithin(_, _, _, _, _)
RecomputeLoopWithin(ch, nds, new_node, i, mine) ==
    IF i > Len(ch.nodes)
    THEN [ch EXCEPT !.neighbors =
            [k \in DOMAIN ch.neighbors \cup {new_node} |->
                IF k = new_node THEN mine ELSE ch.neighbors[k]]]
    ELSE LET n == ch.nodes[i]
         IN  IF n # new_node /\ Distance(nds[n], nds[new_node]) <= ch.range
             THEN RecomputeLoopWithin(
                    [ch EXCEPT !.neighbors[n] = Append(@, new_node)],
                    nds, new_node, i + 1, Append(mine, n))
             ELSE RecomputeLoopWithin(ch, nds, new_node, i + 1, mine)

RECURSIVE RecomputeLoop(_, _, _, _, _)
RecomputeLoop(ch, nds, new_node, i, mine) ==
    IF i > Len(ch.nodes)
    THEN [ch EXCEPT !.neighbors =
            [k \in DOMAIN ch.neighbors \cup {new_node} |->
                IF k = new_node THEN mine ELSE ch.neighbors[k]]]
    ELSE LET n == ch.nodes[i]
         IN  IF n # new_node /\ Distance(nds[n], nds[new_node]) < ch.range
             THEN RecomputeLoop(
                    [ch EXCEPT !.neighbors[n] = Append(@, new_node)],
                    nds, new_node, i + 1, Append(mine, n))
             ELSE RecomputeLoop(ch, nds, new_node, i + 1, mine)

RecomputeNeighbors(ch, nds, new_node) ==
    RecomputeLoop(ch, nds, new_node, 1, <<>>)

RegisterNode(ch, nds, node) ==
    RecomputeNeighbors([ch EXCEPT !.nodes = Append(@, node)], nds, node)

\* the reference of the object made last
LastPacket(s) == Len(s.pkts)


\* the loop of start_transmission from position i of the neighbor list on
RECURSIVE StartTransmissionLoop(_, _, _, _)
StartTransmissionLoop(s, source_node, p, i) ==
    IF i > Len(s.channel.neighbors[source_node]) THEN s
    ELSE LET neighbor == s.channel.neighbors[source_node][i]
             propagation_delay ==
                Distance(s.nodes[source_node], s.nodes[neighbor]) \div SOL
             copy == DeepCopy(s, p)
             s2 == ScheduleEvent(copy.s, s.time + propagation_delay,
                                 "START_RX", neighbor, source_node,
                                 Some(copy.ref))
         IN  StartTransmissionLoop(s2, source_node, p, i + 1)

\* start_transmission with the first neighbor skipped
StartTransmissionFromSecond(s, source_node, p) ==
    IF s.halted # "none" THEN s
    ELSE StartTransmissionLoop(s, source_node, p, 2)

StartTransmission(s, source_node, p) ==
    IF s.halted # "none" THEN s
    ELSE StartTransmissionLoop(s, source_node, p, 1)

(***************************************************************************)
(* Node.                                                                   *)
(***************************************************************************)
NewNode(x, y) ==
    [x |-> x, y |-> y, state |-> "IDLE", queue |-> <<>>,
     current_pkt |-> None, receiving_count |-> 0, timeout_event |-> None]

\* timeout_time without the 10 microseconds added
TimeoutTimeNoGuard(cfg) == (cfg.maxsize * 8) \div cfg.datarate

\* Node.timeout_time
TimeoutTime(cfg) == (cfg.maxsize * 8) \div cfg.datarate + TimeoutGuard

PacketDuration(cfg, packet_size) == (packet_size * 8) \div cfg.datarate

\* the arrival scheduled at the drawn value, not at now plus that value
ScheduleNextArrivalAbsolute(s, n, arrival) ==
    ScheduleEvent(s, arrival, "PACKET_ARRIVAL", n, n, None)

ScheduleNextArrival(s, n, arrival) ==
    ScheduleEvent(s, s.time + arrival, "PACKET_ARRIVAL", n, n, None)

\* transmit_packet that does not schedule the END_TX of the packet
TransmitPacketNoEndTx(s, cfg, n, packet_size) ==
    IF s.halted # "none" THEN s
    ELSE IF s.nodes[n].current_pkt # None THEN Halt(s, "assert")
    ELSE LET duration == PacketDuration(cfg, packet_size)
             s1 == NewPacket(s, packet_size, duration)
             p == LastPacket(s1)
             s2 == StartTransmission(s1, n, p)
         IN  IF s2.halted # "none" THEN s2
             ELSE [s2 EXCEPT !.nodes[n].current_pkt = Some(p)]

\* transmit_packet that does not keep the packet as the current packet
TransmitPacketForgets(s, cfg, n, packet_size) ==
    IF s.halted # "none" THEN s
    ELSE IF s.nodes[n].current_pkt # None THEN Halt(s, "assert")
    ELSE LET duration == PacketDuration(cfg, packet_size)
             s1 == NewPacket(s, packet_size, duration)
             p == LastPacket(s1)
             s2 == StartTransmission(s1, n, p)
         IN  ScheduleEvent(s2, s2.time + duration, "END_TX", n, n, Some(p))

TransmitPacket(s, cfg, n, packet_size) ==
    IF s.halted # "none" THEN s
    ELSE IF s.nodes[n].current_pkt # None THEN Halt(s, "assert")
    ELSE LET duration == PacketDuration(cfg, packet_size)
             s1 == NewPacket(s, packet_size, duration)
             p == LastPacket(s1)
             s2 == StartTransmission(s1, n, p)
             s3 == ScheduleEvent(s2, s2.time + duration, "END_TX", n, n,
                                 Some(p))
         IN  IF s3.halted # "none" THEN s3
             ELSE [s3 EXCEPT !.nodes[n].current_pkt = Some(p)]

SetNodeState(s, n, st) ==
    IF s.halted # "none" THEN s ELSE [s EXCEPT !.nodes[n].state = st]

\* switch_to_proc that changes the state without scheduling END_PROC
SwitchToProcNoEvent(s, n, proc_time) == SetNodeState(s, n, "PROC")

SwitchToProc(s, n, proc_time) ==
    SetNodeState(ScheduleEvent(s, s.time + proc_time, "END_PROC", n, n, None),
                 n, "PROC")

\* handle_arrival with the test len(self.queue) <= self.queue_size
HandleArrivalOneMore(s, cfg, n, packet_size, arrival) ==
    LET s1 == LogArrival(s, n, packet_size)
        s2 == IF s1.nodes[n].state = "IDLE"
              THEN IF Len(s1.nodes[n].queue) # 0 THEN Halt(s1, "assert")
                   ELSE SetNodeState(
                          TransmitPacket(s1, cfg, n, packet_size), n, "TX")
              ELSE IF cfg.queue_size = 0
                      \/ Len(s1.nodes[n].queue) <= cfg.queue_size
                   THEN [s1 EXCEPT !.nodes[n].queue = Append(@, packet_size)]
                   ELSE LogQueueDrop(s1, n, packet_size)
    IN  ScheduleNextArrival(s2, n, arrival)

\* handle_arrival that returns after a drop, without the next arrival
HandleArrivalDropStops(s, cfg, n, packet_size, arrival) ==
    LET s1 == LogArrival(s, n, packet_size)
    IN  IF s1.nodes[n].state = "IDLE"
        THEN IF Len(s1.nodes[n].queue) # 0 THEN Halt(s1, "assert")
             ELSE ScheduleNextArrival(
                    SetNodeState(TransmitPacket(s1, cfg, n, packet_size),
                                 n, "TX"),
                    n, arrival)
        ELSE IF cfg.queue_size = 0
                \/ Len(s1.nodes[n].queue) < cfg.queue_size
             THEN ScheduleNextArrival(
                    [s1 EXCEPT !.nodes[n].queue = Append(@, packet_size)],
                    n, arrival)
             ELSE LogQueueDrop(s1, n, packet_size)

HandleArrival(s, cfg, n, packet_size, arrival) ==
    LET s1 == LogArrival(s, n, packet_size)
        s2 == IF s1.nodes[n].state = "IDLE"
              THEN IF Len(s1.nodes[n].queue) # 0 THEN Halt(s1, "assert")
                   ELSE SetNodeState(
                          TransmitPacket(s1, cfg, n, packet_size), n, "TX")
              ELSE IF cfg.queue_size = 0
                      \/ Len(s1.nodes[n].queue) < cfg.queue_size
                   THEN [s1 EXCEPT !.nodes[n].queue = Append(@, packet_size)]
                   ELSE LogQueueDrop(s1, n, packet_size)
    IN  ScheduleNextArrival(s2, n, arrival)

\* handle_start_rx that leaves the frame under reception as it is when
\* another frame starts
HandleStartRxKeepsCurrent(s, cfg, n, e) ==
    LET new_packet == Ref(e.obj)
        nd == s.nodes[n]
        s1 == IF nd.state = "IDLE"
              THEN IF nd.receiving_count = 0
                   THEN IF nd.current_pkt # None \/ nd.timeout_event # None
                        THEN Halt(s, "assert")
                        ELSE LET a == SetState(s, new_packet, "RECEIVING")
                                 b == [a EXCEPT
                                        !.nodes[n].current_pkt = Some(new_packet),
                                        !.nodes[n].state = "RX"]
                                 c == ScheduleEvent(b, b.time + TimeoutTime(cfg),
                                                    "RX_TIMEOUT", n, n, None)
                             IN  IF c.halted # "none" THEN c
                                 ELSE [c EXCEPT !.nodes[n].timeout_event =
                                                    Some(c.event_count - 1)]
                   ELSE SetState(s, new_packet, "CORRUPTED")
              ELSE SetState(s, new_packet, "CORRUPTED")
        s2 == ScheduleEvent(s1, s1.time + s1.pkts[new_packet].duration,
                            "END_RX", n, n, Some(new_packet))
    IN  IF s2.halted # "none" THEN s2
        ELSE [s2 EXCEPT !.nodes[n].receiving_count = @ + 1]

\* handle_start_rx without the test of receiving_count: an idle node takes
\* every frame that starts
HandleStartRxIdleReceives(s, cfg, n, e) ==
    LET new_packet == Ref(e.obj)
        nd == s.nodes[n]
        s1 == IF nd.state = "IDLE"
              THEN IF TRUE
                   THEN IF nd.current_pkt # None \/ nd.timeout_event # None
                        THEN Halt(s, "assert")
                        ELSE LET a == SetState(s, new_packet, "RECEIVING")
                                 b == [a EXCEPT
                                        !.nodes[n].current_pkt = Some(new_packet),
                                        !.nodes[n].state = "RX"]
                                 c == ScheduleEvent(b, b.time + TimeoutTime(cfg),
                                                    "RX_TIMEOUT", n, n, None)
                             IN  IF c.halted # "none" THEN c
                                 ELSE [c EXCEPT !.nodes[n].timeout_event =
                                                    Some(c.event_count - 1)]
                   ELSE SetState(s, new_packet, "CORRUPTED")
              ELSE LET a == IF nd.state = "RX" /\ nd.current_pkt # None
                            THEN SetState(s, Ref(nd.current_pkt), "CORRUPTED")
                            ELSE s
                   IN  SetState(a, new_packet, "CORRUPTED")
        s2 == ScheduleEvent(s1, s1.time + s1.pkts[new_packet].duration,
                            "END_RX", n, n, Some(new_packet))
    IN  IF s2.halted # "none" THEN s2
        ELSE [s2 EXCEPT !.nodes[n].receiving_count = @ + 1]

\* handle_start_rx without the test of the RX state: a frame that starts
\* corrupts the current packet of a node that is transmitting too
HandleStartRxCorruptsSent(s, cfg, n, e) ==
    LET new_packet == Ref(e.obj)
        nd == s.nodes[n]
        s1 == IF nd.state = "IDLE"
              THEN IF nd.receiving_count = 0
                   THEN IF nd.current_pkt # None \/ nd.timeout_event # None
                        THEN Halt(s, "assert")
                        ELSE LET a == SetState(s, new_packet, "RECEIVING")
                                 b == [a EXCEPT
                                        !.nodes[n].current_pkt = Some(new_packet),
                                        !.nodes[n].state = "RX"]
                                 c == ScheduleEvent(b, b.time + TimeoutTime(cfg),
                                                    "RX_TIMEOUT", n, n, None)
                             IN  IF c.halted # "none" THEN c
                                 ELSE [c EXCEPT !.nodes[n].timeout_event =
                                                    Some(c.event_count - 1)]
                   ELSE SetState(s, new_packet, "CORRUPTED")
              ELSE LET a == IF nd.current_pkt # None
                            THEN SetState(s, Ref(nd.current_pkt), "CORRUPTED")
                            ELSE s
                   IN  SetState(a, new_packet, "CORRUPTED")
        s2 == ScheduleEvent(s1, s1.time + s1.pkts[new_packet].duration,
                            "END_RX", n, n, Some(new_packet))
    IN  IF s2.halted # "none" THEN s2
        ELSE [s2 EXCEPT !.nodes[n].receiving_count = @ + 1]

HandleStartRx(s, cfg, n, e) ==
    LET new_packet == Ref(e.obj)
        nd == s.nodes[n]
        s1 == IF nd.state = "IDLE"
              THEN IF nd.receiving_count = 0
                   THEN IF nd.current_pkt # None \/ nd.timeout_event # None
                        THEN Halt(s, "assert")
                        ELSE LET a == SetState(s, new_packet, "RECEIVING")
                                 b == [a EXCEPT
                                        !.nodes[n].current_pkt = Some(new_packet),
                                        !.nodes[n].state = "RX"]
                                 c == ScheduleEvent(b, b.time + TimeoutTime(cfg),
                                                    "RX_TIMEOUT", n, n, None)
                             IN  IF c.halted # "none" THEN c
                                 ELSE [c EXCEPT !.nodes[n].timeout_event =
                                                    Some(c.event_count - 1)]
                   ELSE SetState(s, new_packet, "CORRUPTED")
              ELSE LET a == IF nd.state = "RX" /\ nd.current_pkt # None
                            THEN SetState(s, Ref(nd.current_pkt), "CORRUPTED")
                            ELSE s
                   IN  SetState(a, new_packet, "CORRUPTED")
        s2 == ScheduleEvent(s1, s1.time + s1.pkts[new_packet].duration,
                            "END_RX", n, n, Some(new_packet))
    IN  IF s2.halted # "none" THEN s2
        ELSE [s2 EXCEPT !.nodes[n].receiving_count = @ + 1]

\* the packet ending is the node's current packet (compared by packet id)
IsCurrent(s, n, p) ==
    /\ s.nodes[n].current_pkt # None
    /\ s.pkts[p].id = s.pkts[Ref(s.nodes[n].current_pkt)].id

\* handle_end_rx with the count decremented inside the RX branch only
HandleEndRxCountsInRx(s, n, e, proc_time) ==
    LET packet == Ref(e.obj)
        nd == s.nodes[n]
    IN  IF IsCurrent(s, n, packet) /\ nd.state # "RX" THEN Halt(s, "assert")
        ELSE
        LET s1 == IF nd.state # "RX" THEN s
                  ELSE
                  LET a == IF s.pkts[packet].state = "RECEIVING"
                           THEN IF nd.current_pkt = None
                                THEN Halt(SetState(s, packet, "RECEIVED"),
                                          "error")
                                ELSE IF ~IsCurrent(s, n, packet)
                                THEN Halt(SetState(s, packet, "RECEIVED"),
                                          "assert")
                                ELSE SetState(s, packet, "RECEIVED")
                           ELSE s
                      b == IF a.halted = "none" /\ IsCurrent(a, n, packet)
                           THEN [a EXCEPT !.nodes[n].current_pkt = None]
                           ELSE a
                      c == IF b.halted = "none" /\ nd.receiving_count = 1
                           THEN LET d == CancelEvent(
                                           SwitchToProc(b, n, proc_time),
                                           nd.timeout_event)
                                IN  IF d.halted # "none" THEN d
                                    ELSE [d EXCEPT
                                           !.nodes[n].timeout_event = None]
                           ELSE b
                  IN  c
        IN  IF s1.halted # "none" THEN s1
            ELSE LogPacket(IF nd.state # "RX" THEN s1
                           ELSE [s1 EXCEPT !.nodes[n].receiving_count = @ - 1],
                           e.src, n, packet)

\* handle_end_rx without the test of the packet's state: every frame that
\* ends in RX is set RECEIVED
HandleEndRxAnyState(s, n, e, proc_time) ==
    LET packet == Ref(e.obj)
        nd == s.nodes[n]
    IN  IF IsCurrent(s, n, packet) /\ nd.state # "RX" THEN Halt(s, "assert")
        ELSE
        LET s1 == IF nd.state # "RX" THEN s
                  ELSE
                  LET a == IF nd.current_pkt = None
                           THEN Halt(SetState(s, packet, "RECEIVED"), "error")
                           ELSE IF ~IsCurrent(s, n, packet)
                           THEN Halt(SetState(s, packet, "RECEIVED"), "assert")
                           ELSE SetState(s, packet, "RECEIVED")
                      b == IF a.halted = "none" /\ IsCurrent(a, n, packet)
                           THEN [a EXCEPT !.nodes[n].current_pkt = None]
                           ELSE a
                      c == IF b.halted = "none" /\ nd.receiving_count = 1
                           THEN LET d == CancelEvent(
                                           SwitchToProc(b, n, proc_time),
                                           nd.timeout_event)
                                IN  IF d.halted # "none" THEN d
                                    ELSE [d EXCEPT
                                           !.nodes[n].timeout_event = None]
                           ELSE b
                  IN  c
        IN  IF s1.halted # "none" THEN s1
            ELSE LogPacket([s1 EXCEPT !.nodes[n].receiving_count = @ - 1],
                           e.src, n, packet)

\* handle_end_rx that does not clear current_pkt when its frame ends
HandleEndRxKeepsCurrent(s, n, e, proc_time) ==
    LET packet == Ref(e.obj)
        nd == s.nodes[n]
    IN  IF IsCurrent(s, n, packet) /\ nd.state # "RX" THEN Halt(s, "assert")
        ELSE
        LET s1 == IF nd.state # "RX" THEN s
                  ELSE
                  LET a == IF s.pkts[packet].state = "RECEIVING"
                           THEN IF nd.current_pkt = None
                                THEN Halt(SetState(s, packet, "RECEIVED"),
                                          "error")
                                ELSE IF ~IsCurrent(s, n, packet)
                                THEN Halt(SetState(s, packet, "RECEIVED"),
                                          "assert")
                                ELSE SetState(s, packet, "RECEIVED")
                           ELSE s
                      b == a
                      c == IF b.halted = "none" /\ nd.receiving_count = 1
                           THEN LET d == CancelEvent(
                                           SwitchToProc(b, n, proc_time),
                                           nd.timeout_event)
                                IN  IF d.halted # "none" THEN d
                                    ELSE [d EXCEPT
                                           !.nodes[n].timeout_event = None]
                           ELSE b
                  IN  c
        IN  IF s1.halted # "none" THEN s1
            ELSE LogPacket([s1 EXCEPT !.nodes[n].receiving_count = @ - 1],
                           e.src, n, packet)

\* handle_end_rx that moves to PROC without cancelling the RX timeout
HandleEndRxLeavesTimeout(s, n, e, proc_time) ==
    LET packet == Ref(e.obj)
        nd == s.nodes[n]
    IN  IF IsCurrent(s, n, packet) /\ nd.state # "RX" THEN Halt(s, "assert")
        ELSE
        LET s1 == IF nd.state # "RX" THEN s
                  ELSE
                  LET a == IF s.pkts[packet].state = "RECEIVING"
                           THEN IF nd.current_pkt = None
                                THEN Halt(SetState(s, packet, "RECEIVED"),
                                          "error")
                                ELSE IF ~IsCurrent(s, n, packet)
                                THEN Halt(SetState(s, packet, "RECEIVED"),
                                          "assert")
                                ELSE SetState(s, packet, "RECEIVED")
                           ELSE s
                      b == IF a.halted = "none" /\ IsCurrent(a, n, packet)
                           THEN [a EXCEPT !.nodes[n].current_pkt = None]
                           ELSE a
                      c == IF b.halted = "none" /\ nd.receiving_count = 1
                           THEN LET d == SwitchToProc(b, n, proc_time)
                                IN  IF d.halted # "none" THEN d
                                    ELSE [d EXCEPT
                                           !.nodes[n].timeout_event = None]
                           ELSE b
                  IN  c
        IN  IF s1.halted # "none" THEN s1
            ELSE LogPacket([s1 EXCEPT !.nodes[n].receiving_count = @ - 1],
                           e.src, n, packet)

\* handle_end_rx that takes the branch of the RX state in every state
HandleEndRxEveryState(s, n, e, proc_time) ==
    LET packet == Ref(e.obj)
        nd == s.nodes[n]
    IN  IF IsCurrent(s, n, packet) /\ nd.state # "RX" THEN Halt(s, "assert")
        ELSE
        LET s1 == IF FALSE THEN s
                  ELSE
                  LET a == IF s.pkts[packet].state = "RECEIVING"
                           THEN IF nd.current_pkt = None
                                THEN Halt(SetState(s, packet, "RECEIVED"),
                                          "error")
                                ELSE IF ~IsCurrent(s, n, packet)
                                THEN Halt(SetState(s, packet, "RECEIVED"),
                                          "assert")
                                ELSE SetState(s, packet, "RECEIVED")
                           ELSE s
                      b == IF a.halted = "none" /\ IsCurrent(a, n, packet)
                           THEN [a EXCEPT !.nodes[n].current_pkt = None]
                           ELSE a
                      c == IF b.halted = "none" /\ nd.receiving_count = 1
                           THEN LET d == CancelEvent(
                                           SwitchToProc(b, n, proc_time),
                                           nd.timeout_event)
                                IN  IF d.halted # "none" THEN d
                                    ELSE [d EXCEPT
                                           !.nodes[n].timeout_event = None]
                           ELSE b
                  IN  c
        IN  IF s1.halted # "none" THEN s1
            ELSE LogPacket([s1 EXCEPT !.nodes[n].receiving_count = @ - 1],
                           e.src, n, packet)

\* handle_end_rx that also leaves RX when the frame it had taken ends
HandleEndRxCurrentLeaves(s, n, e, proc_time) ==
    LET packet == Ref(e.obj)
        nd == s.nodes[n]
    IN  IF IsCurrent(s, n, packet) /\ nd.state # "RX" THEN Halt(s, "assert")
        ELSE
        LET s1 == IF nd.state # "RX" THEN s
                  ELSE
                  LET a == IF s.pkts[packet].state = "RECEIVING"
                           THEN IF nd.current_pkt = None
                                THEN Halt(SetState(s, packet, "RECEIVED"),
                                          "error")
                                ELSE IF ~IsCurrent(s, n, packet)
                                THEN Halt(SetState(s, packet, "RECEIVED"),
                                          "assert")
                                ELSE SetState(s, packet, "RECEIVED")
                           ELSE s
                      b == IF a.halted = "none" /\ IsCurrent(a, n, packet)
                           THEN [a EXCEPT !.nodes[n].current_pkt = None]
                           ELSE a
                      c == IF b.halted = "none"
                              /\ (nd.receiving_count = 1
                                  \/ IsCurrent(s, n, packet))
                           THEN LET d == CancelEvent(
                                           SwitchToProc(b, n, proc_time),
                                           nd.timeout_event)
                                IN  IF d.halted # "none" THEN d
                                    ELSE [d EXCEPT
                                           !.nodes[n].timeout_event = None]
                           ELSE b
                  IN  c
        IN  IF s1.halted # "none" THEN s1
            ELSE LogPacket([s1 EXCEPT !.nodes[n].receiving_count = @ - 1],
                           e.src, n, packet)

HandleEndRx(s, n, e, proc_time) ==
    LET packet == Ref(e.obj)
        nd == s.nodes[n]
    IN  IF IsCurrent(s, n, packet) /\ nd.state # "RX" THEN Halt(s, "assert")
        ELSE
        LET s1 == IF nd.state # "RX" THEN s
                  ELSE
                  LET a == IF s.pkts[packet].state = "RECEIVING"
                           THEN IF nd.current_pkt = None
                                THEN Halt(SetState(s, packet, "RECEIVED"),
                                          "error")
                                ELSE IF ~IsCurrent(s, n, packet)
                                THEN Halt(SetState(s, packet, "RECEIVED"),
                                          "assert")
                                ELSE SetState(s, packet, "RECEIVED")
                           ELSE s
                      b == IF a.halted = "none" /\ IsCurrent(a, n, packet)
                           THEN [a EXCEPT !.nodes[n].current_pkt = None]
                           ELSE a
                      c == IF b.halted = "none" /\ nd.receiving_count = 1
                           THEN LET d == CancelEvent(
                                           SwitchToProc(b, n, proc_time),
                                           nd.timeout_event)
                                IN  IF d.halted # "none" THEN d
                                    ELSE [d EXCEPT
                                           !.nodes[n].timeout_event = None]
                           ELSE b
                  IN  c
        IN  IF s1.halted # "none" THEN s1
            ELSE LogPacket([s1 EXCEPT !.nodes[n].receiving_count = @ - 1],
                           e.src, n, packet)

\* handle_rx_timeout that drops the timeout and stays in RX
HandleRxTimeoutStays(s, n, e, proc_time) ==
    IF s.nodes[n].state # "RX" \/ s.nodes[n].current_pkt # None
    THEN Halt(s, "assert")
    ELSE [s EXCEPT !.nodes[n].timeout_event = None]

HandleRxTimeout(s, n, e, proc_time) ==
    IF s.nodes[n].state # "RX" \/ s.nodes[n].current_pkt # None
    THEN Halt(s, "assert")
    ELSE LET s1 == SwitchToProc(s, n, proc_time)
         IN  IF s1.halted # "none" THEN s1
             ELSE [s1 EXCEPT !.nodes[n].timeout_event = None]

\* handle_end_tx that keeps the packet sent as the current packet
HandleEndTxKeepsCurrent(s, n, e, proc_time) ==
    IF \/ s.nodes[n].state # "TX"
       \/ s.nodes[n].current_pkt = None
       \/ s.pkts[Ref(s.nodes[n].current_pkt)].id # s.pkts[Ref(e.obj)].id
    THEN Halt(s, "assert")
    ELSE SwitchToProc(s, n, proc_time)

HandleEndTx(s, n, e, proc_time) ==
    IF \/ s.nodes[n].state # "TX"
       \/ s.nodes[n].current_pkt = None
       \/ s.pkts[Ref(s.nodes[n].current_pkt)].id # s.pkts[Ref(e.obj)].id
    THEN Halt(s, "assert")
    ELSE SwitchToProc([s EXCEPT !.nodes[n].current_pkt = None], n, proc_time)

\* handle_end_proc that takes the size queued last (queue.pop())
HandleEndProcNewest(s, cfg, n, e) ==
    IF s.nodes[n].state # "PROC" THEN Halt(s, "assert")
    ELSE IF Len(s.nodes[n].queue) = 0
    THEN [s EXCEPT !.nodes[n].state = "IDLE"]
    ELSE LET q == s.nodes[n].queue
             packet_size == q[Len(q)]
             s1 == [s EXCEPT !.nodes[n].queue = SubSeq(q, 1, Len(q) - 1)]
         IN  SetNodeState(TransmitPacket(s1, cfg, n, packet_size), n, "TX")

\* handle_end_proc that goes back to IDLE whatever the queue holds
HandleEndProcIdles(s, cfg, n, e) ==
    IF s.nodes[n].state # "PROC" THEN Halt(s, "assert")
    ELSE [s EXCEPT !.nodes[n].state = "IDLE"]

HandleEndProc(s, cfg, n, e) ==
    IF s.nodes[n].state # "PROC" THEN Halt(s, "assert")
    ELSE IF Len(s.nodes[n].queue) = 0
    THEN [s EXCEPT !.nodes[n].state = "IDLE"]
    ELSE LET packet_size == Head(s.nodes[n].queue)
             s1 == [s EXCEPT !.nodes[n].queue = Tail(@)]
         IN  SetNodeState(TransmitPacket(s1, cfg, n, packet_size), n, "TX")

(***************************************************************************)
(* Events that no handler takes.                                           *)
(***************************************************************************)
\* the event types of Events, and those Node.handle_event has a branch for
EventTypes ==
    {"START_TX", "END_TX", "START_RX", "END_RX", "PACKET_ARRIVAL", "END_PROC",
     "RX_TIMEOUT"}

NodeTypes ==
    {"PACKET_ARRIVAL", "START_RX", "END_RX", "END_TX", "END_PROC",
     "RX_TIMEOUT"}

\* a handle_event that returns without doing anything
HandleEventIgnored(s, e) == s

\* Module.handle_event, the method of a module that does not override it
\* (the Channel): it prints and calls sys.exit(1)
ModuleHandleEvent(s, e) == Halt(s, "unhandled")

\* the last branch of Node.handle_event: it prints and calls sys.exit(1)
HandleUnknown(s, n, e) == Halt(s, "unhandled")

(***************************************************************************)
(* Sim.initialize and Sim.run.                                             *)
(***************************************************************************)
\* Node(config, channel, x, y): the next module id is the node's id
ConstructNode(s, x, y) ==
    LET id == s.modules_count
    IN  [s EXCEPT !.modules_count = id + 1,
                  !.nodes = [k \in DOMAIN s.nodes \cup {id} |->
                                IF k = id THEN NewNode(x, y) ELSE s.nodes[k]]]

\* the node constructed last
LastNode(s) == s.modules_count - 1

ConstructChannel(s, range) ==
    [s EXCEPT !.modules_count = @ + 1,
              !.channel = NewChannel(s.modules_count, range)]

\* the loop of initialize over the configured positions; arrivals[i] is the
\* inter-arrival time drawn by node i's initialize()
RECURSIVE InitializeLoop(_, _, _, _)
InitializeLoop(s, cfg, arrivals, i) ==
    IF i > Len(cfg.positions) \/ s.halted # "none" THEN s
    ELSE LET s1 == ConstructNode(s, cfg.positions[i][1], cfg.positions[i][2])
             node == LastNode(s1)
             s2 == [s1 EXCEPT !.channel = RegisterNode(@, s1.nodes, node)]
             s3 == ScheduleNextArrival(s2, node, arrivals[i])
         IN  InitializeLoop(s3, cfg, arrivals, i + 1)

SimInitialize(s, cfg, arrivals) ==
    InitializeLoop(ConstructChannel(s, cfg.range), cfg, arrivals, 1)

\* the runs of the configuration section, in the order of their run
\* numbers (run 0 first); each gives the node positions, communication
\* range, data rate (bits per tick), queue capacity (0: unbounded), maximum
\* packet size and simulation duration (ticks)
Runs ==
    << [positions |-> <<>>, range |-> 3, datarate |-> 8, queue_size |-> 1,
        maxsize |-> 2, duration |-> 5],
       [positions |-> << <<0, 0>>, <<1, 0>> >>, range |-> 3, datarate |-> 8,
        queue_size |-> 1, maxsize |-> 2, duration |-> 5],
       [positions |-> << <<0, 0>>, <<1, 0>>, <<3, 0>> >>, range |-> 3,
        datarate |-> 8, queue_size |-> 1, maxsize |-> 2, duration |-> 5],
       [positions |-> << <<0, 0>> >>, range |-> 3, datarate |-> 8,
        queue_size |-> 0, maxsize |-> 2, duration |-> 5],
       [positions |-> << <<0, 0>>, <<1, 0>> >>, range |-> 3, datarate |-> 4,
        queue_size |-> 1, maxsize |-> 1, duration |-> 5] >>

\* Config.get_runs_count()
RunsCount == Len(Runs)

Configs == Range(Runs)

\* the run numbers passed to initialize: the runs that exist, the number
\* past the last one, and the negative numbers a Python list index accepts
RunNumbers == (0 - RunsCount) .. RunsCount

\* par_map[param][run_number]: a list index, a negative one counting from
\* the end of the list
RunIndex(run_number) ==
    IF run_number < 0 THEN RunsCount + run_number ELSE run_number

\* the parameters get_param returns once set_run_number(run_number) is done
RunParams(run_number) == Runs[RunIndex(run_number) + 1]

NoChannel == NewChannel(0, 0)

\* the state after Sim.__init__ and set_config
Init ==
    /\ time = 0
    /\ queue = <<>>
    /\ halted = "none"
    /\ phase = "new"
    /\ config = RunParams(0)
    /\ events = <<>>
    /\ event_count = 0
    /\ pkts = <<>>
    /\ packets_count = 0
    /\ modules_count = 0
    /\ nodes = <<>>
    /\ channel = NoChannel
    /\ ret = None
    /\ cancelled = {}
    /\ log = <<>>

\* simulator.initialize(run_number), and for a run that exists the entry
\* to simulator.run(); the only test of the run number is
\* run_number >= get_runs_count()
InitializeRun(run_number) ==
    /\ phase = "new"
    /\ halted = "none"
    /\ IF run_number >= RunsCount
       THEN /\ Commit(Halt(Cur, "run_number"))
            /\ UNCHANGED <<phase, config>>
       ELSE /\ config' = RunParams(run_number)
            /\ phase' = "running"
            /\ \E arrivals \in [1 .. Len(RunParams(run_number).positions)
                                    -> InterarrivalDraws] :
                  Commit(SimInitialize(Cur, RunParams(run_number), arrivals))

Initialize == \E run_number \in RunNumbers : InitializeRun(run_number)

\* the loop condition of run() holds and an event is pending
Looping ==
    /\ phase = "running"
    /\ halted = "none"
    /\ time <= config.duration
    /\ event_count < MaxEvents

\* the event the next iteration of run() pops
Next_e == events[HeapTop(queue)]

\* the event popped goes to a node, which takes the branch of its type
Dispatches(type) ==
    /\ Looping
    /\ queue # <<>>
    /\ Next_e.dst \in DOMAIN nodes
    /\ Next_e.type = type

\* one iteration of the loop of run(), by the type of the event popped
DispatchArrival ==
    /\ Dispatches("PACKET_ARRIVAL")
    /\ \E packet_size \in SizeDraws, arrival \in InterarrivalDraws :
          Commit(HandleArrival(NextEvent(Cur), config, Next_e.dst,
                               packet_size, arrival))
    /\ UNCHANGED <<phase, config>>

DispatchStartRx ==
    /\ Dispatches("START_RX")
    /\ Commit(HandleStartRx(NextEvent(Cur), config, Next_e.dst, Next_e))
    /\ UNCHANGED <<phase, config>>

DispatchEndRx ==
    /\ Dispatches("END_RX")
    /\ \E proc_time \in ProcDraws :
          Commit(HandleEndRx(NextEvent(Cur), Next_e.dst, Next_e, proc_time))
    /\ UNCHANGED <<phase, config>>

DispatchRxTimeout ==
    /\ Dispatches("RX_TIMEOUT")
    /\ \E proc_time \in ProcDraws :
          Commit(HandleRxTimeout(NextEvent(Cur), Next_e.dst, Next_e,
                                 proc_time))
    /\ UNCHANGED <<phase, config>>

DispatchEndTx ==
    /\ Dispatches("END_TX")
    /\ \E proc_time \in ProcDraws :
          Commit(HandleEndTx(NextEvent(Cur), Next_e.dst, Next_e, proc_time))
    /\ UNCHANGED <<phase, config>>

DispatchEndProc ==
    /\ Dispatches("END_PROC")
    /\ Commit(HandleEndProc(NextEvent(Cur), config, Next_e.dst, Next_e))
    /\ UNCHANGED <<phase, config>>

\* next_event on an empty queue: sys.exit(0)
QueueExhausted ==
    /\ Looping
    /\ queue = <<>>
    /\ Commit(NextEvent(Cur))
    /\ UNCHANGED <<phase, config>>

\* the loop condition fails: run() returns
RunReturns ==
    /\ phase = "running"
    /\ halted = "none"
    /\ time > config.duration
    /\ phase' = "done"
    /\ log' = <<>>
    /\ UNCHANGED <<time, queue, halted, config, events, event_count, pkts,
                   packets_count, modules_count, nodes, channel, ret,
                   cancelled>>

Next ==
    \/ Initialize
    \/ DispatchArrival
    \/ DispatchStartRx
    \/ DispatchEndRx
    \/ DispatchRxTimeout
    \/ DispatchEndTx
    \/ DispatchEndProc
    \/ QueueExhausted
    \/ RunReturns

Spec == Init /\ [][Next]_vars

(***************************************************************************)
(* A run in which a caller of schedule_event (as the unit tests are) has   *)
(* put one more event in the queue before run(): an event of any type for  *)
(* the channel, or an event of a type Node has no branch for, for a node.  *)
(***************************************************************************)
ForeignDelays == {0, 2}

\* the event is not one a node handles
IsForeign(e) == e.dst \notin DOMAIN nodes \/ e.type \notin NodeTypes

ScheduleForeign ==
    /\ phase = "running"
    /\ halted = "none"
    /\ ret = None
    /\ \A i \in DOMAIN events : ~IsForeign(events[i])
    /\ \E dst \in {channel.id} \cup DOMAIN nodes, type \in EventTypes,
          delay \in ForeignDelays :
          /\ dst \in DOMAIN nodes => type \notin NodeTypes
          /\ Commit(ScheduleEvent(Cur, time + delay, type, dst, dst, None))
    /\ UNCHANGED <<phase, config>>

\* the event popped goes to a node and is of a type it has no branch for
DispatchUnknown ==
    /\ Looping
    /\ queue # <<>>
    /\ Next_e.dst \in DOMAIN nodes
    /\ Next_e.type \notin NodeTypes
    /\ Commit(HandleUnknown(NextEvent(Cur), Next_e.dst, Next_e))
    /\ UNCHANGED <<phase, config>>

\* the event popped goes to the channel
DispatchToModule ==
    /\ Looping
    /\ queue # <<>>
    /\ Next_e.dst \notin DOMAIN nodes
    /\ Commit(ModuleHandleEvent(NextEvent(Cur), Next_e))
    /\ UNCHANGED <<phase, config>>

NextForeign ==
    \/ Next
    \/ ScheduleForeign
    \/ DispatchUnknown
    \/ DispatchToModule

SpecForeign == Init /\ [][NextForeign]_vars

(***************************************************************************)
(* A driver of the event queue: any sequence of schedule_event,            *)
(* next_event and cancel_event calls on a fresh Sim, with events built as  *)
(* the unit tests build them (type, destination and source 0).             *)
(***************************************************************************)
InitQueue ==
    /\ time = 0
    /\ queue = <<>>
    /\ halted = "none"
    /\ phase = "driver"
    /\ config = CHOOSE c \in Configs : c.positions = <<>>
    /\ events = <<>>
    /\ event_count = 0
    /\ pkts = <<>>
    /\ packets_count = 0
    /\ modules_count = 0
    /\ nodes = <<>>
    /\ channel = NoChannel
    /\ ret = None
    /\ cancelled = {}
    /\ log = <<>>

QScheduleAt(t) ==
    /\ halted = "none"
    /\ event_count < MaxQEvents
    /\ Commit(ScheduleEvent(Cur, t, "PACKET_ARRIVAL", 0, 0, None))
    /\ UNCHANGED <<phase, config>>

QSchedule == \E t \in QTimes : QScheduleAt(t)

QNext ==
    /\ halted = "none"
    /\ Commit(NextEvent(Cur))
    /\ UNCHANGED <<phase, config>>

QCancelOf(id) ==
    /\ halted = "none"
    /\ Commit(CancelEvent(Cur, Some(id)))
    /\ UNCHANGED <<phase, config>>

QCancel == \E id \in DOMAIN events : QCancelOf(id)

NextQueue ==
    \/ QSchedule
    \/ QNext
    \/ QCancel

SpecQueue == InitQueue /\ [][NextQueue]_vars

(***************************************************************************)
(* A driver of the channel: a Channel of some range, and nodes             *)
(* constructed at some positions and registered one after the other.       *)
(***************************************************************************)
ChannelRanges == {0, 4, 5, 6}

ChannelPositions == {<<0, 0>>, <<3, 0>>, <<0, 4>>, <<3, 4>>}

InitChannel ==
    /\ time = 0
    /\ queue = <<>>
    /\ halted = "none"
    /\ phase = "driver"
    /\ config = CHOOSE c \in Configs : c.positions = <<>>
    /\ events = <<>>
    /\ event_count = 0
    /\ pkts = <<>>
    /\ packets_count = 0
    /\ modules_count = 1
    /\ nodes = <<>>
    /\ \E r \in ChannelRanges : channel = NewChannel(0, r)
    /\ ret = None
    /\ cancelled = {}
    /\ log = <<>>

ChannelRegister ==
    /\ Len(channel.nodes) < MaxNodes
    /\ \E pos \in ChannelPositions :
          LET s1 == ConstructNode(Cur, pos[1], pos[2])
          IN  Commit([s1 EXCEPT !.channel =
                         RegisterNode(@, s1.nodes, LastNode(s1))])
    /\ UNCHANGED <<phase, config>>

NextChannel == ChannelRegister

SpecChannel == InitChannel /\ [][NextChannel]_vars

(***************************************************************************)
(* Config: the name of the output file.  Strings are sequences of          *)
(* characters; a JSON value is tagged with its Python type, a dict being   *)
(* the sequence of its (key, value) pairs in file order.  str() of a dict  *)
(* or list is written as Python 3 writes it.                               *)
(***************************************************************************)
\* longest output template the driver of Config loads
MaxTemplateLen == 5

\* Config.OUTPUT
OUTPUT == <<"o", "u", "t", "p", "u", "t">>

\* the section of the configuration file that is loaded
SectionName == <<"s">>

PyInt(n) == [kind |-> "int", v |-> n]
PyStr(chars) == [kind |-> "str", v |-> chars]
PyList(items) == [kind |-> "list", v |-> items]
PyDict(pairs) == [kind |-> "dict", v |-> pairs]

\* the parameters of the section other than output: a, a list with one
\* value per run, and b, a single value that is a dict
SectionParams ==
    << << <<"a">>, PyList(<<PyInt(5), PyInt(6)>>) >>,
       << <<"b">>, PyDict(<< << <<"a">>, PyInt(3) >> >>) >> >>

\* self.cfg[self.section], with or without the output parameter
Section(output) ==
    IF output = None THEN SectionParams
    ELSE Append(SectionParams, <<OUTPUT, PyStr(Ref(output))>>)

\* key in d, and d[key]
DictHas(d, key) == \E i \in DOMAIN d : d[i][1] = key

DictGet(d, key) == d[CHOOSE i \in DOMAIN d : d[i][1] = key][2]

\* map_parameters: the product of the sizes of the list parameters that
\* come before position i
RECURSIVE PrevSize(_, _)
PrevSize(d, i) ==
    IF i <= 1 THEN 1
    ELSE PrevSize(d, i - 1)
         * (IF d[i - 1][2].kind = "list" THEN Len(d[i - 1][2].v) ELSE 1)

\* self.runs_count
SectionRunsCount(d) == PrevSize(d, Len(d) + 1)

\* param in self.par_map
InParMap(d, param) ==
    \E i \in DOMAIN d : d[i][1] = param /\ d[i][2].kind = "list"

\* self.par_map[param][run_number], a negative run number counting from
\* the end of the list
ParMap(d, param, run_number) ==
    LET i == CHOOSE k \in DOMAIN d : d[k][1] = param
        x == IF run_number < 0 THEN SectionRunsCount(d) + run_number
             ELSE run_number
    IN  (x \div PrevSize(d, i)) % Len(d[i][2].v)

DigitChars == <<"0", "1", "2", "3", "4", "5", "6", "7", "8", "9">>

\* "%d" % n
RECURSIVE StrInt(_)
StrInt(n) ==
    IF n < 0 THEN <<"-">> \o StrInt(0 - n)
    ELSE IF n < 10 THEN <<DigitChars[n + 1]>>
    ELSE StrInt(n \div 10) \o <<DigitChars[(n % 10) + 1]>>

RECURSIVE Repr(_)
RECURSIVE ReprItems(_, _)
RECURSIVE ReprPairs(_, _)
\* repr(obj)
Repr(obj) ==
    CASE obj.kind = "int" -> StrInt(obj.v)
      [] obj.kind = "str" -> <<"'">> \o obj.v \o <<"'">>
      [] obj.kind = "list" -> <<"[">> \o ReprItems(obj.v, 1) \o <<"]">>
      [] obj.kind = "dict" -> <<"{">> \o ReprPairs(obj.v, 1) \o <<"}">>

ReprItems(items, i) ==
    IF i > Len(items) THEN <<>>
    ELSE (IF i > 1 THEN <<",", " ">> ELSE <<>>)
         \o Repr(items[i]) \o ReprItems(items, i + 1)

ReprPairs(pairs, i) ==
    IF i > Len(pairs) THEN <<>>
    ELSE (IF i > 1 THEN <<",", " ">> ELSE <<>>)
         \o <<"'">> \o pairs[i][1] \o <<"'", ":", " ">>
         \o Repr(pairs[i][2]) \o ReprPairs(pairs, i + 1)

\* str(obj)
Str(obj) == IF obj.kind = "str" THEN obj.v ELSE Repr(obj)

\* var_name.split('.') from position i on, cur being the piece begun
RECURSIVE SplitFrom(_, _, _)
SplitFrom(chars, i, cur) ==
    IF i > Len(chars) THEN <<cur>>
    ELSE IF chars[i] = "." THEN <<cur>> \o SplitFrom(chars, i + 1, <<>>)
    ELSE SplitFrom(chars, i + 1, Append(cur, chars[i]))

Split(chars) == SplitFrom(chars, 1, <<>>)

\* the object a variable of the template starts from: the value of the
\* parameter for the run, or the index of that value when it is a list;
\* ok is FALSE when config[var] raises KeyError
Parameter(d, var, run_number) ==
    IF InParMap(d, var)
    THEN LET index == ParMap(d, var, run_number)
             obj == DictGet(d, var).v[index + 1]
         IN  [ok |-> TRUE,
              obj |-> IF obj.kind = "list" THEN PyInt(index) ELSE obj]
    ELSE IF ~DictHas(d, var) THEN [ok |-> FALSE, obj |-> PyInt(0)]
    ELSE LET obj == DictGet(d, var)
         IN  [ok |-> TRUE, obj |-> IF obj.kind = "list" THEN PyInt(0) ELSE obj]

\* the loop obj = obj[var] over variables[1:]; ok turns FALSE when the
\* subscript raises (a missing key, or an object that is not a dict)
RECURSIVE Introspect(_, _, _)
Introspect(r, variables, i) ==
    IF ~r.ok \/ i > Len(variables) THEN r
    ELSE IF r.obj.kind = "dict" /\ DictHas(r.obj.v, variables[i])
    THEN Introspect([ok |-> TRUE, obj |-> DictGet(r.obj.v, variables[i])],
                    variables, i + 1)
    ELSE [ok |-> FALSE, obj |-> r.obj]

VariableValue(d, var_name, run_number) ==
    Introspect(Parameter(d, Split(var_name)[1], run_number),
               Split(var_name), 2)

\* the loop over the characters of the template, from character i on, and
\* the test after it; end is "none" when the name is complete, "template"
\* for sys.exit(1) on invalid syntax, "error" for an exception
RECURSIVE TemplateLoop(_, _, _, _, _, _, _)
TemplateLoop(d, run_number, template, i, state, var_name, output) ==
    IF i > Len(template)
    THEN [end |-> IF state = "INVAR" THEN "template" ELSE "none",
          output |-> output]
    ELSE IF template[i] = "{"
    THEN IF state = "OUTVAR"
         THEN TemplateLoop(d, run_number, template, i + 1, "INVAR", <<>>,
                           output)
         ELSE [end |-> "template", output |-> output]
    ELSE IF template[i] = "}"
    THEN IF state = "INVAR"
         THEN LET r == VariableValue(d, var_name, run_number)
              IN  IF ~r.ok THEN [end |-> "error", output |-> output]
                  ELSE TemplateLoop(d, run_number, template, i + 1, "OUTVAR",
                                    var_name, output \o Str(r.obj))
         ELSE [end |-> "template", output |-> output]
    ELSE IF state = "INVAR"
    THEN TemplateLoop(d, run_number, template, i + 1, state,
                      Append(var_name, template[i]), output)
    ELSE TemplateLoop(d, run_number, template, i + 1, state, var_name,
                      Append(output, template[i]))

\* "%s_%d.csv" % (self.section, self.run_number)
DefaultName(run_number) ==
    SectionName \o <<"_">> \o StrInt(run_number) \o <<".", "c", "s", "v">>

\* compute_output_file_name on the Config object c: the object after the
\* call and the way the process ended in it ("none": the call returned).
\* Without an output parameter the default name is stored and the
\* statement template = config[Config.OUTPUT] then raises KeyError.
ComputeOutputFileName(c) ==
    IF ~DictHas(Section(c.output), OUTPUT)
    THEN [config |-> [c EXCEPT !.output_file = Some(DefaultName(c.run_number))],
          halted |-> "error"]
    ELSE LET r == TemplateLoop(Section(c.output), c.run_number,
                               DictGet(Section(c.output), OUTPUT).v, 1,
                               "OUTVAR", <<>>, <<>>)
         IN  IF r.end = "none"
             THEN [config |-> [c EXCEPT !.output_file = Some(r.output)],
                   halted |-> "none"]
             ELSE [config |-> c, halted |-> r.end]

(***************************************************************************)
(* A driver of Config: a section with or without an output template is     *)
(* loaded, the constructor computes the name for run 0, and                *)
(* set_run_number is called with run numbers sim.initialize lets through.  *)
(***************************************************************************)
TemplateChars == {"{", "}", ".", "a", "b"}

Templates == UNION {[1 .. k -> TemplateChars] : k \in 0 .. MaxTemplateLen}

\* Config.__init__ up to map_parameters and self.run_number = 0
InitOutput ==
    /\ time = 0
    /\ queue = <<>>
    /\ halted = "none"
    /\ phase = "new"
    /\ \E output \in {None} \cup {Some(tpl) : tpl \in Templates} :
          config = [output |-> output, run_number |-> 0, output_file |-> None]
    /\ events = <<>>
    /\ event_count = 0
    /\ pkts = <<>>
    /\ packets_count = 0
    /\ modules_count = 0
    /\ nodes = <<>>
    /\ channel = NoChannel
    /\ ret = None
    /\ cancelled = {}
    /\ log = <<>>

\* the last statement of Config.__init__
ConfigInit ==
    /\ phase = "new"
    /\ halted = "none"
    /\ config' = ComputeOutputFileName(config).config
    /\ halted' = ComputeOutputFileName(config).halted
    /\ phase' = "constructed"
    /\ UNCHANGED <<time, queue, events, event_count, pkts, packets_count,
                   modules_count, nodes, channel, ret, cancelled, log>>

SetRunNumberTo(run_number) ==
    /\ phase \in {"constructed", "set"}
    /\ halted = "none"
    /\ LET c == [config EXCEPT !.run_number = run_number]
       IN  /\ config' = ComputeOutputFileName(c).config
           /\ halted' = ComputeOutputFileName(c).halted
    /\ phase' = "set"
    /\ UNCHANGED <<time, queue, events, event_count, pkts, packets_count,
                   modules_count, nodes, channel, ret, cancelled, log>>

\* set_run_number(run_number), run_number below get_runs_count()
SetRunNumber ==
    \E run_number \in (0 - SectionRunsCount(SectionParams))
                         .. (SectionRunsCount(SectionParams) - 1) :
        SetRunNumberTo(run_number)

NextOutput ==
    \/ ConfigInit
    \/ SetRunNumber

SpecOutput == InitOutput /\ [][NextOutput]_vars

(***************************************************************************)
(* Properties of the event queue (SpecQueue).                              *)
(***************************************************************************)
Pending == Range(queue)

\* the (event_time, event_id) pair of event i is smaller than that of j
KeyLess(i, j) ==
    \/ events[i].time < events[j].time
    \/ events[i].time = events[j].time /\ i < j

\* this step is a next_event call that returned an event
Popped == ret' # ret

\* C1: every next_event call on a non-empty queue removes and returns the
\* pending event with the smallest (event_time, event_id) pair, whatever
\* schedule_event, cancel_event and next_event calls came before; among
\* pending events of equal time the one constructed first is returned.
C1_NextEventReturnsSmallest ==
    [][Popped =>
         /\ Ref(ret') \in Pending
         /\ \A j \in Pending \ {Ref(ret')} : KeyLess(Ref(ret'), j)
         /\ Range(queue') = Pending \ {Ref(ret')}
         /\ Len(queue') = Len(queue) - 1]_vars

\* an event was cancelled ahead of the event returned last (so before it
\* was returned), and that event was returned ahead of a pending event of
\* the same time
C1_Witness ==
    /\ ret # None
    /\ \E c \in cancelled : KeyLess(c, Ref(ret))
    /\ \E j \in Pending : events[j].time = events[Ref(ret)].time

\* C2: on the events constructed, < and > are the strict total order of
\* the (event_time, event_id) pairs: smaller time is less, equal times are
\* ordered by event_id, == holds exactly for equal event_id, equal events
\* are neither less nor greater, exactly one of <, ==, > holds, and < is
\* transitive.
C2_EventOrder ==
    \A i \in DOMAIN events, j \in DOMAIN events :
        LET a == events[i]
            b == events[j]
        IN  /\ a.time < b.time => EventLt(a, b) /\ EventGt(b, a)
            /\ a.time = b.time /\ a.event_id < b.event_id
                  => EventLt(a, b) /\ EventGt(b, a)
            /\ EventEq(a, b) <=> a.event_id = b.event_id
            /\ EventEq(a, b) => ~EventLt(a, b) /\ ~EventGt(a, b)
            /\ ~(EventLt(a, b) /\ EventGt(a, b))
            /\ EventLt(a, b) \/ EventEq(a, b) \/ EventGt(a, b)
            /\ \A k \in DOMAIN events :
                  EventLt(a, b) /\ EventLt(b, events[k])
                     => EventLt(a, events[k])

\* events of different times and events of equal time have been constructed
C2_Witness ==
    \E i \in DOMAIN events, j \in DOMAIN events, k \in DOMAIN events :
        /\ events[i].time > events[j].time
        /\ i < j
        /\ j < k
        /\ events[j].time = events[k].time

\* C3: a cancel_event call on a pending event removes exactly that event
\* from the queue and leaves the smallest remaining event at the head; no
\* cancelled event is pending or is returned by a later next_event call.
C3_CancelRemoves ==
    /\ [](Pending \cap cancelled = {})
    /\ [][/\ Popped => Ref(ret') \notin cancelled
          /\ cancelled' # cancelled =>
                /\ Cardinality(cancelled' \ cancelled) = 1
                /\ (cancelled' \ cancelled) \subseteq Pending
                /\ Range(queue') = Pending \ cancelled'
                /\ Len(queue') = Len(queue) - 1
                /\ queue' # <<>> =>
                      \A j \in Range(queue') \ {queue'[1]} :
                         KeyLess(queue'[1], j)]_vars

\* an event returned after the cancellation of an earlier event, with
\* events still pending
C3_Witness ==
    /\ ret # None
    /\ \E c \in cancelled : KeyLess(c, Ref(ret))
    /\ Pending # {}

\* C4: a cancel_event call on an event that is not pending ends the process
\* with a non-zero exit status and leaves the queue as it is; cancel_event
\* returns normally only for a pending event.
C4_CancelNotPendingIsFatal ==
    [][/\ (cancelled' \ cancelled) \subseteq Pending
       /\ \A id \in DOMAIN events :
             QCancelOf(id) /\ id \notin Pending =>
                /\ halted' = "cancel_missing"
                /\ ExitStatus(halted') # 0
                /\ queue' = queue
                /\ cancelled' = cancelled]_vars

\* the process ended in cancel_event with events pending, after an event
\* was dispatched and one was cancelled
C4_Witness ==
    /\ halted = "cancel_missing"
    /\ cancelled # {}
    /\ ret # None
    /\ Pending # {}

\* this step constructed an event and passed it to schedule_event
Scheduled == event_count' = event_count + 1

\* C5: schedule_event of an event with a time before the current time ends
\* the process with a non-zero exit status and does not insert the event;
\* with a time at or after the current time it inserts the event and
\* changes nothing else in the queue.
C5_SchedulePastIsFatal ==
    [][Scheduled =>
         LET id == event_count
         IN  IF events'[id].time < time
             THEN /\ halted' # "none"
                  /\ ExitStatus(halted') # 0
                  /\ queue' = queue
             ELSE /\ halted' = "none"
                  /\ Range(queue') = Pending \cup {id}
                  /\ Len(queue') = Len(queue) + 1]_vars

\* the process ended in schedule_event, with events pending, one of them
\* at the current time
C5_Witness ==
    /\ halted = "schedule_past"
    /\ \E j \in Pending : events[j].time = time

(***************************************************************************)
(* Properties of the simulation run (Spec).                                *)
(***************************************************************************)
\* the events constructed by this step
NewEvents == event_count .. event_count' - 1

\* C6: the simulation time never decreases and changes only in a
\* next_event call, to the time of the event returned; every pending event
\* has a time at or after the current time; with non-negative draws no
\* handler of Node or Channel schedules an event in the past.
C6_TimeAdvancesWithEvents ==
    /\ [](/\ halted # "schedule_past"
          /\ \A j \in Pending : events[j].time >= time)
    /\ [][/\ time' >= time
          /\ time' # time => Popped
          /\ Popped => time' = events'[Ref(ret')].time]_vars

\* the time has advanced and an END_PROC is pending at the current time,
\* behind the event dispatched last
C6_Witness ==
    /\ phase = "running"
    /\ time > 0
    /\ ret # None
    /\ \E j \in Pending :
          /\ events[j].type = "END_PROC"
          /\ events[j].time = time
          /\ KeyLess(Ref(ret), j)

\* C7: no event with a time beyond the configured duration is dispatched.
C7_NoDispatchBeyondDuration ==
    ret # None => events[Ref(ret)].time <= config.duration

(***************************************************************************)
(* Properties of the channel.                                              *)
(***************************************************************************)
\* the square of the Euclidean distance between nodes a and b
DistSq(a, b) ==
    (nodes[a].x - nodes[b].x) * (nodes[a].x - nodes[b].x)
    + (nodes[a].y - nodes[b].y) * (nodes[a].y - nodes[b].y)

Registered == Range(channel.nodes)

NoDuplicates(seq) ==
    \A i \in DOMAIN seq, j \in DOMAIN seq : seq[i] = seq[j] => i = j

IsPrefix(a, b) == Len(a) <= Len(b) /\ SubSeq(b, 1, Len(a)) = a

\* C8: after any sequence of register_node calls every registered node has
\* a neighbor list, the neighbor map is symmetric, no node is its own
\* neighbor or is listed twice, and two distinct registered nodes are
\* neighbors exactly when their Euclidean distance is strictly less than
\* range; a neighbor list only grows, at its end.
C8_NeighborMap ==
    /\ [](/\ DOMAIN channel.neighbors = Registered
          /\ \A a \in Registered :
                /\ a \notin Range(channel.neighbors[a])
                /\ NoDuplicates(channel.neighbors[a])
                /\ \A b \in Registered \ {a} :
                      /\ b \in Range(channel.neighbors[a])
                            <=> a \in Range(channel.neighbors[b])
                      /\ b \in Range(channel.neighbors[a])
                            <=> (channel.range > 0 /\
                                 DistSq(a, b) < channel.range * channel.range))
    /\ [][\A a \in Registered :
             IsPrefix(channel.neighbors[a], channel.neighbors'[a])]_vars

\* three nodes are registered, two of them neighbors and two of them not,
\* being at a distance of exactly range
C8_Witness ==
    /\ Len(channel.nodes) = 3
    /\ \E a \in Registered, b \in Registered :
          b \in Range(channel.neighbors[a])
    /\ \E a \in Registered, b \in Registered :
          /\ DistSq(a, b) = channel.range * channel.range
          /\ b \notin Range(channel.neighbors[a])

(***************************************************************************)
(* Properties of a transmission (Spec).                                    *)
(***************************************************************************)
\* this step is a dispatch in which the destination of the event started
\* a transmission
Transmits == packets_count' # packets_count

\* the START_RX events constructed by this step addressed to node m
StartRxTo(m) ==
    {i \in NewEvents : events'[i].type = "START_RX" /\ events'[i].dst = m}

\* C9: a transmission by node n schedules exactly one START_RX event for
\* each neighbor of n, with n as source, at the current time plus the
\* propagation delay of the link, and none for n itself or for a node that
\* is not a neighbor of n; it leaves the state of the other nodes and of
\* the packets that exist as they are, and changes of n only the state,
\* the current packet and the head of the queue.  No other step constructs
\* a START_RX event.
C9_StartTransmissionFanOut ==
    [][/\ Transmits =>
            LET n == events'[Ref(ret')].dst
            IN  /\ \A m \in DOMAIN nodes :
                      /\ Cardinality(StartRxTo(m)) =
                            IF m \in Range(channel.neighbors[n]) THEN 1 ELSE 0
                      /\ \A i \in StartRxTo(m) :
                            LET delay == events'[i].time - time'
                            IN  /\ i \in Range(queue')
                                /\ events'[i].src = n
                                /\ delay >= 0
                                /\ (delay * SOL) * (delay * SOL) = DistSq(n, m)
                      /\ m # n => nodes'[m] = nodes[m]
                /\ \A i \in NewEvents :
                      events'[i].type = "START_RX" =>
                         events'[i].dst \in DOMAIN nodes
                /\ nodes'[n].receiving_count = nodes[n].receiving_count
                /\ nodes'[n].timeout_event = nodes[n].timeout_event
                /\ \A p \in DOMAIN pkts : pkts'[p] = pkts[p]
       /\ ~Transmits =>
            \A i \in NewEvents : events'[i].type # "START_RX"]_vars

\* a node with two neighbors is transmitting and the START_RX events of
\* its transmission are pending for both
C9_Witness ==
    \E n \in DOMAIN nodes :
        /\ nodes[n].state = "TX"
        /\ Len(channel.neighbors[n]) = 2
        /\ \A m \in Range(channel.neighbors[n]) :
              \E i \in Pending :
                 /\ events[i].type = "START_RX"
                 /\ events[i].dst = m
                 /\ events[i].src = n

\* the nodes that hold packet object p: the destinations of the events
\* that carry it and the nodes of which it is the current packet
Holders(p) ==
    {events[i].dst : i \in {k \in DOMAIN events : events[k].obj = Some(p)}}
    \cup {n \in DOMAIN nodes : nodes[n].current_pkt = Some(p)}

\* p is the packet object a sender constructed (the one its END_TX carries)
IsOriginal(p) ==
    \E k \in DOMAIN events :
        events[k].type = "END_TX" /\ events[k].obj = Some(p)

\* C10: every packet object is held by exactly one node, the sender for
\* the original and the recipient for each copy; the state of a packet
\* object changes only in a dispatch to the node that holds it, and the
\* state of a sender's original never changes.
C10_PacketCopiesIndependent ==
    /\ [](\A p \in DOMAIN pkts :
             /\ Cardinality(Holders(p)) = 1
             /\ IsOriginal(p) => pkts[p].state = "RECEIVING")
    /\ [][\A p \in DOMAIN pkts :
             pkts'[p].state # pkts[p].state =>
                /\ Popped
                /\ Holders(p) = {events'[Ref(ret')].dst}
                /\ ~IsOriginal(p)]_vars

\* the two copies of one transmission ended in different states, one
\* received and one corrupted, the original being as it was made
C10_Witness ==
    \E o \in DOMAIN pkts, p \in DOMAIN pkts, q \in DOMAIN pkts :
        /\ IsOriginal(o)
        /\ pkts[p].id = pkts[o].id
        /\ pkts[q].id = pkts[o].id
        /\ pkts[o].state = "RECEIVING"
        /\ pkts[p].state = "RECEIVED"
        /\ pkts[q].state = "CORRUPTED"


(***************************************************************************)
(* Properties of a reception (Spec).                                       *)
(***************************************************************************)
\* this step dispatched an event of the given type to node n
DispatchedTo(n, type) ==
    /\ Popped
    /\ events[Ref(ret')].dst = n
    /\ events[Ref(ret')].type = type

\* the END_RX events pending for node n
PendingEndRx(n) ==
    {i \in Pending : events[i].type = "END_RX" /\ events[i].dst = n}

\* the packet copies in the air at node n: START_RX handled, END_RX pending
InFlight(n) == {Ref(events[i].obj) : i \in PendingEndRx(n)}

\* END_RX event i was constructed right behind an RX timeout of its node,
\* that is by a START_RX that found the node idle with no frame in the air
StartedClean(i) ==
    /\ i > 0
    /\ events[i - 1].type = "RX_TIMEOUT"
    /\ events[i - 1].dst = events[i].dst

\* C11: the START_RX of a copy leaves it RECEIVING exactly when it finds
\* the node IDLE with receiving_count 0, and CORRUPTED otherwise; every
\* START_RX the node handles while a copy is in the air leaves that copy
\* CORRUPTED; no other step but the copy's END_RX changes the state of a
\* copy in the air; and the row logged at the END_RX is RECEIVED for a
\* copy that is still RECEIVING and CORRUPTED for every other, never
\* RECEIVING.
C11_ReceptionOutcome ==
    [][\A n \in DOMAIN nodes :
         LET e == events[Ref(ret')]
             p == Ref(e.obj)
         IN  /\ DispatchedTo(n, "START_RX") =>
                   /\ halted' = "none"
                   /\ pkts'[p].state =
                         IF nodes[n].state = "IDLE"
                            /\ nodes[n].receiving_count = 0
                         THEN "RECEIVING" ELSE "CORRUPTED"
                   /\ \A q \in InFlight(n) : pkts'[q].state = "CORRUPTED"
                   /\ InFlight(n)' = InFlight(n) \cup {p}
                   /\ p \notin InFlight(n)
             /\ ~DispatchedTo(n, "START_RX") =>
                   \A q \in InFlight(n) :
                      pkts'[q].state # pkts[q].state =>
                         DispatchedTo(n, "END_RX") /\ p = q
             /\ DispatchedTo(n, "END_RX") =>
                   /\ halted' = "none"
                   /\ p \in InFlight(n)
                   /\ InFlight(n)' = InFlight(n) \ {p}
                   /\ log' = << [time |-> time', src |-> e.src, dst |-> n,
                                 event |-> IF pkts[p].state = "RECEIVING"
                                           THEN "RECEIVED" ELSE "CORRUPTED",
                                 size |-> pkts[p].size] >>]_vars

\* the END_RX of a copy whose START_RX found the node idle with nothing in
\* the air has just logged CORRUPTED: a later frame overlapped it, and the
\* node is still in RX with that frame in the air
C11_Witness ==
    /\ ret # None
    /\ events[Ref(ret)].type = "END_RX"
    /\ StartedClean(Ref(ret))
    /\ Len(log) = 1
    /\ log[1].event = "CORRUPTED"
    /\ nodes[events[Ref(ret)].dst].state = "RX"
    /\ InFlight(events[Ref(ret)].dst) # {}


\* C12: when an RX_TIMEOUT event has been dispatched to a node, in a run
\* of any configured maxsize and with any size the distribution draws, the
\* node's current_pkt was None and the assertions of handle_rx_timeout held.
C12_RxTimeoutFindsNoCurrentPacket ==
    (ret # None /\ events[Ref(ret)].type = "RX_TIMEOUT") =>
        /\ nodes[events[Ref(ret)].dst].current_pkt = None
        /\ halted # "assert"


\* C13: the receiving_count of every node is non-negative and is the
\* number of END_RX events pending for the node; a START_RX handled by a
\* node, in any state of the node, constructs exactly one END_RX event,
\* for that copy and node at the current time plus the copy's duration,
\* leaves it pending and adds one to the count; an END_RX handled takes
\* one off; no other step changes the count.
C13_ReceivingCount ==
    /\ [](\A n \in DOMAIN nodes :
             /\ nodes[n].receiving_count >= 0
             /\ nodes[n].receiving_count = Cardinality(PendingEndRx(n)))
    /\ [][\A n \in DOMAIN nodes :
             LET e == events[Ref(ret')]
                 made == {i \in NewEvents : /\ events'[i].type = "END_RX"
                                            /\ events'[i].dst = n}
             IN  /\ DispatchedTo(n, "START_RX") =>
                       /\ nodes'[n].receiving_count =
                             nodes[n].receiving_count + 1
                       /\ Cardinality(made) = 1
                       /\ PendingEndRx(n)' = PendingEndRx(n) \cup made
                       /\ \A i \in made :
                             /\ events'[i].obj = e.obj
                             /\ events'[i].time =
                                   time' + pkts[Ref(e.obj)].duration
                 /\ DispatchedTo(n, "END_RX") =>
                       /\ nodes'[n].receiving_count =
                             nodes[n].receiving_count - 1
                       /\ PendingEndRx(n)' = PendingEndRx(n) \ {Ref(ret')}
                 /\ nodes'[n].receiving_count # nodes[n].receiving_count =>
                       \/ DispatchedTo(n, "START_RX")
                       \/ DispatchedTo(n, "END_RX")
                 /\ ~DispatchedTo(n, "START_RX") => made = {}]_vars

\* of two frames that overlap at a node the END_RX of one has just been
\* handled: the count is 1, the END_RX of the other being pending
C13_Witness ==
    /\ ret # None
    /\ events[Ref(ret)].type = "END_RX"
    /\ LET n == events[Ref(ret)].dst
       IN  /\ nodes[n].receiving_count = 1
           /\ nodes[n].state = "RX"
           /\ Cardinality(PendingEndRx(n)) = 1


(***************************************************************************)
(* Properties of the transmission queue (Spec).                            *)
(***************************************************************************)
\* the rows of the given kind written by this step
RowsOf(kind) == {k \in DOMAIN log' : log'[k].event = kind}

\* C14: with a queue capacity greater than 0 no queue is ever longer than
\* the capacity; a PACKET_ARRIVAL handled by a node that is not IDLE and
\* whose queue holds capacity entries leaves the queue as it is and logs
\* QUEUE_DROPPED with the size drawn, and one handled with fewer entries,
\* or with capacity 0, appends the size drawn at the tail and logs no
\* drop; with capacity 0 no step logs a drop.
C14_QueueBound ==
    /\ [](\A n \in DOMAIN nodes :
             config.queue_size > 0 =>
                Len(nodes[n].queue) <= config.queue_size)
    /\ [][/\ \A n \in DOMAIN nodes :
                DispatchedTo(n, "PACKET_ARRIVAL") /\ nodes[n].state # "IDLE" =>
                   \E packet_size \in SizeDraws :
                      LET generated == [time |-> time', src |-> n, dst |-> n,
                                        event |-> "GENERATED",
                                        size |-> packet_size]
                          dropped == [generated EXCEPT
                                        !.event = "QUEUE_DROPPED"]
                      IN  IF /\ config.queue_size > 0
                             /\ Len(nodes[n].queue) = config.queue_size
                          THEN /\ nodes'[n].queue = nodes[n].queue
                               /\ log' = <<generated, dropped>>
                          ELSE /\ nodes'[n].queue =
                                     Append(nodes[n].queue, packet_size)
                               /\ log' = <<generated>>
          /\ config.queue_size = 0 => RowsOf("QUEUE_DROPPED") = {}
          /\ RowsOf("QUEUE_DROPPED") # {} =>
                DispatchedTo(events[Ref(ret')].dst, "PACKET_ARRIVAL")]_vars

\* an arrival has just been dropped at a node whose queue is full, the
\* node being busy
C14_Witness ==
    /\ ret # None
    /\ events[Ref(ret)].type = "PACKET_ARRIVAL"
    /\ Len(log) = 2
    /\ log[2].event = "QUEUE_DROPPED"
    /\ log[2].size = log[1].size
    /\ LET n == events[Ref(ret)].dst
       IN  /\ nodes[n].state # "IDLE"
           /\ config.queue_size > 0
           /\ Len(nodes[n].queue) = config.queue_size


(***************************************************************************)
(* Properties of the packet state (Spec).                                  *)
(***************************************************************************)
\* C15: the state of a packet object only moves forward from RECEIVING: a
\* packet that is CORRUPTED stays CORRUPTED and a packet that is RECEIVED
\* stays RECEIVED in every step, and no packet takes any other state.
C15_PacketStateForward ==
    [][\A p \in DOMAIN pkts :
         /\ pkts[p].state = "CORRUPTED" => pkts'[p].state = "CORRUPTED"
         /\ pkts[p].state = "RECEIVED" => pkts'[p].state = "RECEIVED"
         /\ pkts'[p].state \in {"RECEIVING", "RECEIVED", "CORRUPTED"}]_vars

\* the END_RX of a copy that the node had taken as its current packet and
\* that a collision corrupted has been handled with the node in RX: the
\* copy is CORRUPTED and is no longer the current packet
C15_Witness ==
    /\ ret # None
    /\ events[Ref(ret)].type = "END_RX"
    /\ StartedClean(Ref(ret))
    /\ pkts[Ref(events[Ref(ret)].obj)].state = "CORRUPTED"
    /\ nodes[events[Ref(ret)].dst].current_pkt = None
    /\ nodes[events[Ref(ret)].dst].state = "RX"


(***************************************************************************)
(* Properties of events that no handler takes (SpecForeign).               *)
(***************************************************************************)
\* C17: the dispatch of an event to a node that has no branch for its
\* type, or to a module that does not override handle_event (the channel),
\* ends the process with a non-zero exit status; the step changes no node,
\* packet or channel state, schedules nothing and logs nothing; and no
\* step is taken once the process has ended.
C17_UnhandledEventHalts ==
    [][/\ halted = "none"
       /\ Popped /\ IsForeign(events[Ref(ret')]) =>
             /\ halted' = "unhandled"
             /\ ExitStatus(halted') # 0
             /\ nodes' = nodes
             /\ pkts' = pkts
             /\ channel' = channel
             /\ event_count' = event_count
             /\ Range(queue') = Pending \ {Ref(ret')}
             /\ log' = <<>>]_vars

\* a START_TX event was dispatched to a node that is transmitting, with
\* events pending, and the process has ended
C17_Witness ==
    /\ halted = "unhandled"
    /\ ret # None
    /\ events[Ref(ret)].type = "START_TX"
    /\ events[Ref(ret)].dst \in DOMAIN nodes
    /\ nodes[events[Ref(ret)].dst].state = "TX"
    /\ Pending # {}

(***************************************************************************)
(* Properties of initialize (Spec).                                        *)
(***************************************************************************)
\* C18: initialize(run_number) with a run_number outside
\* 0 .. runs_count - 1, negative ones included, ends the process with a
\* non-zero exit status before the channel or a node is constructed and
\* before an event is scheduled.
C18_BadRunNumberRejected ==
    [][\A run_number \in RunNumbers \ (0 .. RunsCount - 1) :
         InitializeRun(run_number) =>
            /\ halted' # "none"
            /\ ExitStatus(halted') # 0
            /\ nodes' = nodes
            /\ channel' = channel
            /\ modules_count' = modules_count
            /\ event_count' = event_count
            /\ queue' = queue]_vars


(***************************************************************************)
(* Properties of the node state (Spec).                                    *)
(***************************************************************************)
\* the RX_TIMEOUT events pending for node n
PendingTimeouts(n) ==
    {i \in Pending : events[i].type = "RX_TIMEOUT" /\ events[i].dst = n}

\* C19, as stated: a node has a pending RX_TIMEOUT if and only if it is in
\* RX with current_pkt None.
C19_TimeoutIffRxWithoutCurrent ==
    \A n \in DOMAIN nodes :
        PendingTimeouts(n) # {}
           <=> (nodes[n].state = "RX" /\ nodes[n].current_pkt = None)

\* C19, amended: while the run goes on a node has a pending RX_TIMEOUT if
\* and only if it is in RX, whether or not it holds a current packet; the
\* pending RX_TIMEOUT is the one event timeout_event refers to, and
\* timeout_event is None in every other state.
C19_TimeoutIffRx ==
    halted = "none" =>
        \A n \in DOMAIN nodes :
            /\ PendingTimeouts(n) # {} <=> nodes[n].state = "RX"
            /\ PendingTimeouts(n) = Range(nodes[n].timeout_event)

\* a node is in RX with its timeout pending and no current packet: the
\* frame it had taken has ended and a frame that overlapped it is still
\* in the air
C19_Witness ==
    /\ halted = "none"
    /\ \E n \in DOMAIN nodes :
          /\ nodes[n].state = "RX"
          /\ nodes[n].current_pkt = None
          /\ nodes[n].receiving_count = 1
          /\ PendingTimeouts(n) # {}

\* C20, as stated: current_pkt is not None only if the node is in TX, or
\* is in RX with receiving_count 1 and current_pkt in state RECEIVING.
C20_CurrentOnlyCleanCandidate ==
    \A n \in DOMAIN nodes :
        nodes[n].current_pkt # None =>
           \/ nodes[n].state = "TX"
           \/ /\ nodes[n].state = "RX"
              /\ nodes[n].receiving_count = 1
              /\ pkts[Ref(nodes[n].current_pkt)].state = "RECEIVING"

\* C20, amended: current_pkt is not None only if the node is in TX, where
\* it is the packet whose END_TX is pending, or in RX, where it is a copy
\* in the air at the node that is either RECEIVING with receiving_count 1
\* or CORRUPTED by an overlapping frame; a copy in the air that is
\* RECEIVING is the current packet of its node.
C20_CurrentInTxOrRx ==
    \A n \in DOMAIN nodes :
        /\ nodes[n].current_pkt # None =>
              LET p == Ref(nodes[n].current_pkt)
              IN  \/ /\ nodes[n].state = "TX"
                     /\ \E i \in Pending :
                           /\ events[i].type = "END_TX"
                           /\ events[i].dst = n
                           /\ events[i].obj = Some(p)
                  \/ /\ nodes[n].state = "RX"
                     /\ p \in InFlight(n)
                     /\ \/ /\ pkts[p].state = "RECEIVING"
                           /\ nodes[n].receiving_count = 1
                        \/ pkts[p].state = "CORRUPTED"
        /\ \A q \in InFlight(n) :
              pkts[q].state = "RECEIVING" => nodes[n].current_pkt = Some(q)

\* a node in RX holds a current packet that a second frame has corrupted,
\* both frames being in the air
C20_Witness ==
    \E n \in DOMAIN nodes :
        /\ nodes[n].state = "RX"
        /\ nodes[n].current_pkt # None
        /\ pkts[Ref(nodes[n].current_pkt)].state = "CORRUPTED"
        /\ nodes[n].receiving_count = 2


(***************************************************************************)
(* Properties of the handlers of Node, one by one (Spec).                  *)
(***************************************************************************)
\* the events of the given type pending for node n
PendingOf(n, type) ==
    {i \in Pending : events[i].type = type /\ events[i].dst = n}

\* the events of the given type for node n constructed by this step
MadeFor(n, type) ==
    {i \in NewEvents : events'[i].type = type /\ events'[i].dst = n}

\* C21: the only events ever cancelled are RX_TIMEOUT events: a step that
\* cancels is the handling of an END_RX by a node in RX that moves to PROC,
\* it cancels exactly one event, which that node armed (source and
\* destination, and its timeout_event), and which is pending; the process
\* never ends in the error of cancel_event.
C21_OnlyOwnTimeoutCancelled ==
    /\ [](/\ halted # "cancel_missing"
          /\ \A i \in cancelled : events[i].type = "RX_TIMEOUT")
    /\ [][cancelled' # cancelled =>
             \E n \in DOMAIN nodes :
                /\ DispatchedTo(n, "END_RX")
                /\ nodes[n].state = "RX"
                /\ nodes'[n].state = "PROC"
                /\ cancelled \subseteq cancelled'
                /\ cancelled' \ cancelled = Range(nodes[n].timeout_event)
                /\ \A i \in cancelled' \ cancelled :
                      /\ i \in Pending
                      /\ i \notin Range(queue')
                      /\ events[i].type = "RX_TIMEOUT"
                      /\ events[i].dst = n
                      /\ events[i].src = n]_vars

\* the END_RX of the last frame in the air has just moved a node from RX
\* to PROC and the timeout it had armed is cancelled, other events pending
C21_Witness ==
    /\ ret # None
    /\ events[Ref(ret)].type = "END_RX"
    /\ nodes[events[Ref(ret)].dst].state = "PROC"
    /\ \E i \in cancelled :
          /\ events[i].dst = events[Ref(ret)].dst
          /\ events[i].time > time
    /\ Pending # {}


\* C22: the handling of a PACKET_ARRIVAL by a node constructs exactly one
\* PACKET_ARRIVAL event, for that node, and leaves it pending, whether the
\* packet is transmitted, queued or dropped; no other step of a run
\* constructs one; once initialize is done every node has exactly one
\* PACKET_ARRIVAL pending in every state, and the queue is not empty while
\* a node exists.
C22_OneArrivalPending ==
    /\ [](\A n \in DOMAIN nodes :
             /\ Cardinality(PendingOf(n, "PACKET_ARRIVAL")) = 1
             /\ queue # <<>>)
    /\ [][\A n \in DOMAIN nodes :
             /\ DispatchedTo(n, "PACKET_ARRIVAL") =>
                   /\ Cardinality(MadeFor(n, "PACKET_ARRIVAL")) = 1
                   /\ MadeFor(n, "PACKET_ARRIVAL") \subseteq Range(queue')
                   /\ \A i \in MadeFor(n, "PACKET_ARRIVAL") :
                         /\ events'[i].src = n
                         /\ events'[i].time - time' \in InterarrivalDraws
             /\ ~DispatchedTo(n, "PACKET_ARRIVAL") =>
                   MadeFor(n, "PACKET_ARRIVAL") = {}]_vars

\* a node has just dropped an arrival, its queue being full, and its next
\* PACKET_ARRIVAL is pending
C22_Witness ==
    /\ ret # None
    /\ events[Ref(ret)].type = "PACKET_ARRIVAL"
    /\ \E k \in DOMAIN log : log[k].event = "QUEUE_DROPPED"
    /\ \E i \in PendingOf(events[Ref(ret)].dst, "PACKET_ARRIVAL") :
          i > Ref(ret)


\* C23: a START_RX handled by a node that is IDLE with receiving_count 0
\* moves the node to RX, makes the copy its current packet, in state
\* RECEIVING, and constructs exactly one RX_TIMEOUT event, for that node,
\* at the current time plus maxsize * 8 / datarate plus the guard, which
\* is then the only RX_TIMEOUT pending for the node and its timeout_event;
\* no other handling of a START_RX and no other step constructs an
\* RX_TIMEOUT event.
C23_CleanStartRx ==
    [][\A n \in DOMAIN nodes :
         LET p == Ref(events[Ref(ret')].obj)
             armed == MadeFor(n, "RX_TIMEOUT")
         IN  IF /\ DispatchedTo(n, "START_RX")
                /\ nodes[n].state = "IDLE"
                /\ nodes[n].receiving_count = 0
             THEN /\ nodes'[n].state = "RX"
                  /\ nodes'[n].current_pkt = Some(p)
                  /\ pkts'[p].state = "RECEIVING"
                  /\ Cardinality(armed) = 1
                  /\ PendingOf(n, "RX_TIMEOUT")' = armed
                  /\ Range(nodes'[n].timeout_event) = armed
                  /\ \A i \in armed :
                        /\ events'[i].src = n
                        /\ events'[i].obj = None
                        /\ events'[i].time =
                              time' + (config.maxsize * 8) \div config.datarate
                                    + TimeoutGuard
             ELSE armed = {}]_vars

\* a node has just handled a START_RX while idle with nothing in the air:
\* it is in RX with the copy, and its timeout is pending after the END_RX
\* of the copy
C23_Witness ==
    /\ ret # None
    /\ events[Ref(ret)].type = "START_RX"
    /\ LET n == events[Ref(ret)].dst
       IN  /\ nodes[n].state = "RX"
           /\ nodes[n].current_pkt = events[Ref(ret)].obj
           /\ nodes[n].receiving_count = 1
           /\ \E i \in PendingOf(n, "RX_TIMEOUT"), j \in PendingEndRx(n) :
                 events[i].time > events[j].time


\* what a START_RX handled by node n without taking the frame changes:
\* the copy is CORRUPTED, the END_RX of the copy is constructed and
\* pending, and the count of the node is one more; the other fields of the
\* node, the other nodes and packets, the other pending events, the
\* events constructed before and the log are as they were
OnlyCountsFrame(n) ==
    LET p == Ref(events[Ref(ret')].obj)
    IN  /\ halted' = "none"
        /\ pkts'[p] = [pkts[p] EXCEPT !.state = "CORRUPTED"]
        /\ \A q \in DOMAIN pkts' \ {p} : q \in DOMAIN pkts /\ pkts'[q] = pkts[q]
        /\ nodes' = [nodes EXCEPT ![n].receiving_count = @ + 1]
        /\ NewEvents = MadeFor(n, "END_RX")
        /\ Cardinality(NewEvents) = 1
        /\ Range(queue') = (Pending \ {Ref(ret')}) \cup NewEvents
        /\ \A i \in DOMAIN events : events'[i] = events[i]
        /\ cancelled' = cancelled
        /\ log' = <<>>

\* C24: a START_RX handled by a node that is IDLE with receiving_count
\* greater than 0 marks the copy CORRUPTED; the node stays IDLE with
\* current_pkt None and no RX_TIMEOUT armed or pending, and only its
\* receiving_count and the pending END_RX events change.
C24_StartRxIdleBusyAir ==
    [][\A n \in DOMAIN nodes :
         /\ DispatchedTo(n, "START_RX")
         /\ nodes[n].state = "IDLE"
         /\ nodes[n].receiving_count > 0
         => /\ OnlyCountsFrame(n)
            /\ nodes'[n].state = "IDLE"
            /\ nodes'[n].current_pkt = None
            /\ nodes'[n].timeout_event = None
            /\ PendingOf(n, "RX_TIMEOUT")' = {}]_vars

\* an idle node has just handled a START_RX with another frame in the
\* air: it is idle with two frames in the air, the new copy CORRUPTED
C24_Witness ==
    /\ ret # None
    /\ events[Ref(ret)].type = "START_RX"
    /\ LET n == events[Ref(ret)].dst
       IN  /\ nodes[n].state = "IDLE"
           /\ nodes[n].receiving_count >= 2
           /\ pkts[Ref(events[Ref(ret)].obj)].state = "CORRUPTED"

\* C25: a START_RX handled by a node in TX marks only the incoming copy
\* CORRUPTED: the node stays in TX with the same current packet, in the
\* same state, the END_TX of the packet stays pending, and the copies of
\* the packet and their events at the neighbors are as they were.
C25_StartRxWhileTx ==
    [][\A n \in DOMAIN nodes :
         DispatchedTo(n, "START_RX") /\ nodes[n].state = "TX"
         => /\ OnlyCountsFrame(n)
            /\ nodes'[n].state = "TX"
            /\ nodes'[n].current_pkt = nodes[n].current_pkt
            /\ nodes[n].current_pkt # None
            /\ pkts'[Ref(nodes[n].current_pkt)] =
                  pkts[Ref(nodes[n].current_pkt)]
            /\ pkts[Ref(nodes[n].current_pkt)].state = "RECEIVING"
            /\ \E i \in PendingOf(n, "END_TX") :
                  /\ events[i].obj = nodes[n].current_pkt
                  /\ i \in Range(queue')]_vars

\* a node that is transmitting has just handled a START_RX: the copy is
\* CORRUPTED, and a START_RX of the node's own transmission is still
\* pending at a neighbor
C25_Witness ==
    /\ ret # None
    /\ events[Ref(ret)].type = "START_RX"
    /\ LET n == events[Ref(ret)].dst
       IN  /\ nodes[n].state = "TX"
           /\ pkts[Ref(events[Ref(ret)].obj)].state = "CORRUPTED"
           /\ \E i \in Pending :
                 /\ events[i].type = "START_RX"
                 /\ events[i].src = n
                 /\ pkts[Ref(events[i].obj)].id =
                       pkts[Ref(nodes[n].current_pkt)].id


\* what the move of node n to PROC does in this step: the node is in
\* PROC, and exactly one END_PROC event is constructed, for the node, at
\* the current time plus a processing time drawn, and is the only one
\* pending for the node
MovesToProc(n) ==
    /\ nodes'[n].state = "PROC"
    /\ Cardinality(MadeFor(n, "END_PROC")) = 1
    /\ PendingOf(n, "END_PROC")' = MadeFor(n, "END_PROC")
    /\ \A i \in MadeFor(n, "END_PROC") :
          /\ events'[i].src = n
          /\ events'[i].time - time' \in ProcDraws

\* the RX_TIMEOUT of node n is pending and this step cancels it
CancelsTimeout(n) ==
    /\ Cardinality(PendingOf(n, "RX_TIMEOUT")) = 1
    /\ cancelled' = cancelled \cup PendingOf(n, "RX_TIMEOUT")
    /\ PendingOf(n, "RX_TIMEOUT")' = {}
    /\ nodes'[n].timeout_event = None

\* C26, as stated: a node that handles an END_RX while its
\* receiving_count is 1 moves to PROC, schedules an END_PROC for itself
\* and cancels its pending RX_TIMEOUT.
C26_LastEndRxMovesToProc ==
    [][\A n \in DOMAIN nodes :
         DispatchedTo(n, "END_RX") /\ nodes[n].receiving_count = 1
         => MovesToProc(n) /\ CancelsTimeout(n)]_vars

\* C26, amended: a node in RX that handles an END_RX while its
\* receiving_count is 1 moves to PROC, schedules one END_PROC for itself
\* and cancels its pending RX_TIMEOUT; an END_RX handled in any other
\* state, or in RX with a larger count, leaves the state of the node as it
\* is, constructs no event and cancels nothing.
C26_LastEndRxInRxMovesToProc ==
    [][\A n \in DOMAIN nodes :
         DispatchedTo(n, "END_RX") =>
            IF nodes[n].state = "RX" /\ nodes[n].receiving_count = 1
            THEN /\ MovesToProc(n)
                 /\ CancelsTimeout(n)
                 /\ NewEvents = MadeFor(n, "END_PROC")
            ELSE /\ nodes'[n].state = nodes[n].state
                 /\ nodes'[n].timeout_event = nodes[n].timeout_event
                 /\ NewEvents = {}
                 /\ cancelled' = cancelled
                 /\ Range(queue') = Pending \ {Ref(ret')}]_vars

\* the END_RX of the last of two frames that overlapped at a node in RX
\* has been handled: the node is in PROC with its END_PROC pending, its
\* timeout cancelled and no current packet
C26_Witness ==
    /\ ret # None
    /\ events[Ref(ret)].type = "END_RX"
    /\ LET n == events[Ref(ret)].dst
       IN  /\ nodes[n].state = "PROC"
           /\ nodes[n].receiving_count = 0
           /\ PendingOf(n, "END_PROC") # {}
           /\ \E i \in cancelled : events[i].dst = n
           /\ \E j \in DOMAIN events \ (Pending \cup {Ref(ret)}) :
                 /\ events[j].type = "END_RX"
                 /\ events[j].dst = n
                 /\ pkts[Ref(events[j].obj)].state = "CORRUPTED"


\* C27: when an RX_TIMEOUT event is dispatched to a node the node is in
\* RX; the handling moves it to PROC, schedules exactly one END_PROC for
\* it and clears timeout_event, and leaves receiving_count and the queue
\* of the node as they were.
C27_RxTimeoutMovesToProc ==
    [][\A n \in DOMAIN nodes :
         DispatchedTo(n, "RX_TIMEOUT") =>
            /\ nodes[n].state = "RX"
            /\ MovesToProc(n)
            /\ nodes'[n].timeout_event = None
            /\ nodes'[n].receiving_count = nodes[n].receiving_count
            /\ nodes'[n].queue = nodes[n].queue]_vars


\* C28: when an END_TX event is dispatched to a node the node is in TX and
\* its current packet is not None and has the id of the packet of the
\* event, so that no assertion of handle_end_tx fails; after the handling
\* current_pkt is None, the node is in PROC and exactly one END_PROC is
\* pending for it.
C28_EndTxMovesToProc ==
    [][\A n \in DOMAIN nodes :
         DispatchedTo(n, "END_TX") =>
            /\ nodes[n].state = "TX"
            /\ nodes[n].current_pkt # None
            /\ pkts[Ref(nodes[n].current_pkt)].id =
                  pkts[Ref(events[Ref(ret')].obj)].id
            /\ halted' = "none"
            /\ nodes'[n].current_pkt = None
            /\ MovesToProc(n)]_vars

\* the END_TX of a transmission that began when an END_PROC of the node
\* was handled is handled: the node is in PROC again with no current
\* packet and one END_PROC pending
C28_Witness ==
    /\ ret # None
    /\ events[Ref(ret)].type = "END_TX"
    /\ LET n == events[Ref(ret)].dst
       IN  /\ nodes[n].state = "PROC"
           /\ nodes[n].current_pkt = None
           /\ Cardinality(PendingOf(n, "END_PROC")) = 1
           /\ \E j \in DOMAIN events \ Pending :
                 /\ events[j].type = "END_PROC"
                 /\ events[j].dst = n
                 /\ events[j].time =
                       time - pkts[Ref(events[Ref(ret)].obj)].duration


\* C29: when an END_PROC event is dispatched to a node the node is in
\* PROC; with an empty queue it becomes IDLE and constructs no event and
\* no packet; otherwise it removes the size at the head of the queue,
\* constructs a packet of that size, makes it its current packet, sends it
\* (END_TX at the current time plus the duration of that size) and is in
\* TX.  A queue changes only by an append at its tail or the removal of
\* its head, so sizes are sent in the order they were queued.
C29_EndProcSendsOldest ==
    [][\A n \in DOMAIN nodes :
         /\ DispatchedTo(n, "END_PROC") =>
               /\ nodes[n].state = "PROC"
               /\ halted' = "none"
               /\ IF nodes[n].queue = <<>>
                  THEN /\ nodes'[n] = [nodes[n] EXCEPT !.state = "IDLE"]
                       /\ NewEvents = {}
                       /\ pkts' = pkts
                  ELSE /\ nodes'[n].state = "TX"
                       /\ nodes'[n].queue = Tail(nodes[n].queue)
                       /\ nodes'[n].current_pkt = Some(Len(pkts) + 1)
                       /\ pkts'[Len(pkts) + 1] =
                             [id |-> packets_count,
                              size |-> Head(nodes[n].queue),
                              duration |->
                                 (Head(nodes[n].queue) * 8) \div config.datarate,
                              state |-> "RECEIVING"]
                       /\ Cardinality(MadeFor(n, "END_TX")) = 1
                       /\ \A i \in MadeFor(n, "END_TX") :
                             /\ i \in Range(queue')
                             /\ events'[i].obj = Some(Len(pkts) + 1)
                             /\ events'[i].time =
                                   time' + (Head(nodes[n].queue) * 8)
                                              \div config.datarate
         /\ \/ nodes'[n].queue = nodes[n].queue
            \/ /\ DispatchedTo(n, "PACKET_ARRIVAL")
               /\ \E size \in SizeDraws :
                     nodes'[n].queue = Append(nodes[n].queue, size)
            \/ /\ DispatchedTo(n, "END_PROC")
               /\ nodes[n].queue # <<>>
               /\ nodes'[n].queue = Tail(nodes[n].queue)]_vars

\* an END_PROC has been handled by a node with two sizes queued: it is
\* sending the one queued first, and the other, a different size, is
\* still queued
C29_Witness ==
    /\ ret # None
    /\ events[Ref(ret)].type = "END_PROC"
    /\ LET n == events[Ref(ret)].dst
       IN  /\ nodes[n].state = "TX"
           /\ nodes[n].queue # <<>>
           /\ nodes[n].current_pkt # None
           /\ pkts[Ref(nodes[n].current_pkt)].size # nodes[n].queue[1]


\* C30: a node that is IDLE has an empty queue, in every state; so a
\* PACKET_ARRIVAL dispatched to an IDLE node never fails the assertion of
\* handle_arrival, queues nothing and starts sending the new packet at
\* once (the node is in TX with that packet as its current packet and its
\* END_TX pending), whatever the number of frames on the air at the node.
C30_IdleArrivalTransmits ==
    [][\A n \in DOMAIN nodes :
         /\ nodes[n].state = "IDLE" => nodes[n].queue = <<>>
         /\ (n \in DOMAIN nodes' /\ nodes'[n].state = "IDLE") =>
               nodes'[n].queue = <<>>
         /\ (DispatchedTo(n, "PACKET_ARRIVAL") /\ nodes[n].state = "IDLE") =>
               /\ halted' # "assert"
               /\ nodes'[n].state = "TX"
               /\ nodes'[n].queue = <<>>
               /\ nodes'[n].receiving_count = nodes[n].receiving_count
               /\ nodes'[n].current_pkt = Some(Len(pkts) + 1)
               /\ pkts'[Len(pkts) + 1].id = packets_count
               /\ Cardinality(MadeFor(n, "END_TX")) = 1
               /\ \A i \in MadeFor(n, "END_TX") :
                     /\ i \in Range(queue')
                     /\ events'[i].obj = Some(Len(pkts) + 1)
                     /\ events'[i].time = time' + pkts'[Len(pkts) + 1].duration
               /\ RowsOf("QUEUE_DROPPED") = {}]_vars

\* a PACKET_ARRIVAL has been handled by a node that was IDLE while a frame
\* was on the air: its queue is empty, so the packet was neither queued
\* nor dropped, and the node is sending the packet constructed last with
\* receiving_count above 0
C30_Witness ==
    /\ ret # None
    /\ events[Ref(ret)].type = "PACKET_ARRIVAL"
    /\ LET n == events[Ref(ret)].dst
       IN  /\ nodes[n].state = "TX"
           /\ nodes[n].queue = <<>>
           /\ nodes[n].receiving_count > 0
           /\ nodes[n].current_pkt # None
           /\ pkts[Ref(nodes[n].current_pkt)].id = packets_count - 1


(***************************************************************************)
(* Invariants of the node state machine (Spec).                            *)
(***************************************************************************)
\* this step made node n call transmit_packet: a PACKET_ARRIVAL handled
\* while IDLE, or an END_PROC handled with a size queued
CallsTransmitPacket(n) ==
    \/ DispatchedTo(n, "PACKET_ARRIVAL") /\ nodes[n].state = "IDLE"
    \/ DispatchedTo(n, "END_PROC") /\ nodes[n].queue # <<>>

\* this step made node n commit to a frame: a START_RX handled while IDLE
\* with no frame in the air
CommitsToFrame(n) ==
    /\ DispatchedTo(n, "START_RX")
    /\ nodes[n].state = "IDLE"
    /\ nodes[n].receiving_count = 0

\* C31: a node in IDLE or PROC has current_pkt None, in every state; so
\* every call of transmit_packet and every commitment to a frame in
\* handle_start_rx finds current_pkt None, no assertion fails there, and
\* the step sets current_pkt to the packet sent or to the copy taken; no
\* step replaces one current packet by another.
C31_CurrentPktNoneBeforeSet ==
    /\ [](\A n \in DOMAIN nodes :
             nodes[n].state \in {"IDLE", "PROC"} => nodes[n].current_pkt = None)
    /\ [][\A n \in DOMAIN nodes :
             /\ CallsTransmitPacket(n) =>
                   /\ nodes[n].current_pkt = None
                   /\ halted' = "none"
                   /\ nodes'[n].current_pkt = Some(Len(pkts) + 1)
             /\ CommitsToFrame(n) =>
                   /\ nodes[n].current_pkt = None
                   /\ halted' = "none"
                   /\ nodes'[n].current_pkt = events[Ref(ret')].obj
             /\ (n \in DOMAIN nodes' /\ nodes'[n].current_pkt # nodes[n].current_pkt)
                   => \/ nodes[n].current_pkt = None
                         /\ (CallsTransmitPacket(n) \/ CommitsToFrame(n))
                      \/ nodes'[n].current_pkt = None]_vars

\* a node that had taken a frame and received it whole has gone through
\* PROC and, a size being queued, has just called transmit_packet from
\* handle_end_proc: it is in TX with the new packet as its current packet
C31_Witness ==
    /\ ret # None
    /\ events[Ref(ret)].type = "END_PROC"
    /\ LET n == events[Ref(ret)].dst
       IN  /\ nodes[n].state = "TX"
           /\ nodes[n].current_pkt # None
           /\ pkts[Ref(nodes[n].current_pkt)].id = packets_count - 1
           /\ \E j \in DOMAIN events \ Pending :
                 /\ events[j].type = "END_RX"
                 /\ events[j].dst = n
                 /\ pkts[Ref(events[j].obj)].state = "RECEIVED"



\* C32: a node in RX has the RX_TIMEOUT it armed on entry pending, at the
\* time of entry plus timeout_time, so it is out of RX once the events up
\* to that time are dispatched; it leaves RX only through an END_RX
\* handled with receiving_count 1 or through that RX_TIMEOUT, and an
\* RX_TIMEOUT dispatched to a node moves it to PROC.
C32_OutOfRxByTimeout ==
    /\ [](\A n \in DOMAIN nodes :
             nodes[n].state = "RX" =>
                /\ nodes[n].timeout_event # None
                /\ Ref(nodes[n].timeout_event) \in PendingOf(n, "RX_TIMEOUT")
                /\ events[Ref(nodes[n].timeout_event)].time >= time)
    /\ [][\A n \in DOMAIN nodes :
             /\ (nodes[n].state # "RX" /\ n \in DOMAIN nodes'
                    /\ nodes'[n].state = "RX") =>
                   /\ Cardinality(MadeFor(n, "RX_TIMEOUT")) = 1
                   /\ nodes'[n].timeout_event # None
                   /\ Ref(nodes'[n].timeout_event) \in MadeFor(n, "RX_TIMEOUT")
                   /\ events'[Ref(nodes'[n].timeout_event)].time =
                         time' + TimeoutTime(config)
             /\ (nodes[n].state = "RX" /\ nodes'[n].state # "RX") =>
                   /\ nodes'[n].state = "PROC"
                   /\ \/ DispatchedTo(n, "END_RX")
                         /\ nodes[n].receiving_count = 1
                      \/ DispatchedTo(n, "RX_TIMEOUT")
                         /\ ret' = nodes[n].timeout_event
             /\ DispatchedTo(n, "RX_TIMEOUT") =>
                   /\ nodes[n].state = "RX"
                   /\ ret' = nodes[n].timeout_event
                   /\ nodes'[n].state = "PROC"]_vars



(***************************************************************************)
(* Termination of a run (Spec).                                            *)
(***************************************************************************)
\* C33: every run terminates normally: a run that has been started ends
\* only by the exhaustion of the event queue, which ends the process with
\* exit status 0, or by run() returning once the time is beyond the
\* duration; until then every step of the run dispatches one event, and
\* the time never goes back.
C33_RunTerminatesNormally ==
    /\ []((phase = "running" /\ halted # "none") =>
             (halted = "exhausted" /\ ExitStatus(halted) = 0 /\ queue = <<>>))
    /\ [](phase = "done" => (halted = "none" /\ time > config.duration))
    /\ [][phase = "running" =>
             /\ time' >= time
             /\ \/ Popped /\ phase' = "running"
                \/ halted' = "exhausted"
                \/ phase' = "done"]_vars



(***************************************************************************)
(* The name of the output file (SpecOutput).                               *)
(***************************************************************************)
\* the template, read from character i on, has a { inside a variable, a }
\* outside a variable, or a { that is not closed
RECURSIVE MalformedFrom(_, _, _)
MalformedFrom(tpl, i, invar) ==
    IF i > Len(tpl) THEN invar
    ELSE IF tpl[i] = "{" THEN invar \/ MalformedFrom(tpl, i + 1, TRUE)
    ELSE IF tpl[i] = "}" THEN ~invar \/ MalformedFrom(tpl, i + 1, FALSE)
    ELSE MalformedFrom(tpl, i + 1, invar)

Malformed(tpl) == MalformedFrom(tpl, 1, FALSE)

\* the position of the first } of a sequence of characters
FirstClose(tpl) == CHOOSE j \in DOMAIN tpl :
                      tpl[j] = "}" /\ \A k \in 1 .. j - 1 : tpl[k] # "}"

\* every {name} of a well-formed template names a parameter of the section
\* (or a member of one)
RECURSIVE NamesKnown(_, _)
NamesKnown(tpl, run_number) ==
    IF tpl = <<>> THEN TRUE
    ELSE IF Head(tpl) = "{"
    THEN /\ VariableValue(Section(Some(tpl)),
                          SubSeq(tpl, 2, FirstClose(tpl) - 1), run_number).ok
         /\ NamesKnown(SubSeq(tpl, FirstClose(tpl) + 1, Len(tpl)), run_number)
    ELSE NamesKnown(Tail(tpl), run_number)

\* the text of a well-formed template with each {name} replaced by the
\* value of that parameter for the run
RECURSIVE Substituted(_, _)
Substituted(tpl, run_number) ==
    IF tpl = <<>> THEN <<>>
    ELSE IF Head(tpl) = "{"
    THEN Str(VariableValue(Section(Some(tpl)),
                           SubSeq(tpl, 2, FirstClose(tpl) - 1),
                           run_number).obj)
         \o Substituted(SubSeq(tpl, FirstClose(tpl) + 1, Len(tpl)), run_number)
    ELSE <<Head(tpl)>> \o Substituted(Tail(tpl), run_number)

\* C34: once compute_output_file_name has run, for the constructor or for
\* set_run_number: without an output parameter it returned and the name
\* is "<section>_<run number>.csv"; with a malformed output template the
\* process ended with an error; with any other template whose names are
\* parameters it returned and the name is the text of the template with
\* each {name} replaced by the value of the parameter for the current run.
C34_OutputFileName ==
    phase \in {"constructed", "set"} =>
        IF config.output = None
        THEN /\ halted = "none"
             /\ config.output_file = Some(DefaultName(config.run_number))
        ELSE IF Malformed(Ref(config.output))
        THEN halted # "none" /\ ExitStatus(halted) = 1
        ELSE NamesKnown(Ref(config.output), config.run_number) =>
                /\ halted = "none"
                /\ config.output_file =
                      Some(Substituted(Ref(config.output), config.run_number))



(***************************************************************************)
(* Invariants of the events pending for a node (Spec).                     *)
(***************************************************************************)
\* C35: while the process runs, the timeout_event of a node is not None
\* if and only if the node is in RX, with or without a current packet, and
\* it is then a pending RX_TIMEOUT event for the node; at most one
\* RX_TIMEOUT for a node is pending at any time, the one timeout_event
\* refers to; and a node that commits to a frame finds timeout_event None,
\* so that the assertion on entering RX does not fail, and arms one.
C35_TimeoutEventIffRx ==
    /\ [](\A n \in DOMAIN nodes :
             /\ Cardinality(PendingOf(n, "RX_TIMEOUT")) <= 1
             /\ PendingOf(n, "RX_TIMEOUT") \subseteq Range(nodes[n].timeout_event)
             /\ halted = "none" =>
                   /\ nodes[n].timeout_event # None <=> nodes[n].state = "RX"
                   /\ Range(nodes[n].timeout_event)
                         \subseteq PendingOf(n, "RX_TIMEOUT"))
    /\ [][\A n \in DOMAIN nodes :
             CommitsToFrame(n) =>
                /\ nodes[n].timeout_event = None
                /\ halted' = "none"
                /\ nodes'[n].state = "RX"
                /\ Range(nodes'[n].timeout_event) = MadeFor(n, "RX_TIMEOUT")
                /\ Cardinality(MadeFor(n, "RX_TIMEOUT")) = 1]_vars

\* a node is in RX for the second time: the timeout of its first
\* reception was cancelled, and it holds a current packet with the
\* timeout of this reception pending
C35_Witness ==
    /\ halted = "none"
    /\ \E n \in DOMAIN nodes :
          /\ nodes[n].state = "RX"
          /\ nodes[n].current_pkt # None
          /\ nodes[n].timeout_event # None
          /\ Ref(nodes[n].timeout_event) \in Pending
          /\ \E i \in cancelled : events[i].dst = n



\* C36: a node in TX has exactly one END_TX pending for it, whose packet
\* is its current packet, and no END_PROC; a node in PROC has exactly one
\* END_PROC pending for it and no END_TX; a node in IDLE or RX has neither
\* pending; and an END_PROC is dispatched to a node only in PROC, so that
\* the assertion of handle_end_proc does not fail.
C36_BusyStateHasItsEvent ==
    /\ [](\A n \in DOMAIN nodes :
             /\ Cardinality(PendingOf(n, "END_TX")) =
                   IF nodes[n].state = "TX" THEN 1 ELSE 0
             /\ Cardinality(PendingOf(n, "END_PROC")) =
                   IF nodes[n].state = "PROC" THEN 1 ELSE 0
             /\ \A i \in PendingOf(n, "END_TX") :
                   /\ nodes[n].current_pkt # None
                   /\ events[i].obj = nodes[n].current_pkt)
    /\ [][\A n \in DOMAIN nodes :
             DispatchedTo(n, "END_PROC") =>
                nodes[n].state = "PROC" /\ halted' = "none"]_vars

\* three nodes, one in each busy state: one is sending with its END_TX
\* pending, one is in PROC with its END_PROC pending, one is receiving
C36_Witness ==
    /\ halted = "none"
    /\ \E n \in DOMAIN nodes : nodes[n].state = "TX"
    /\ \E n \in DOMAIN nodes : nodes[n].state = "PROC"
    /\ \E n \in DOMAIN nodes : nodes[n].state = "RX"



\* C37: an END_RX handled by a node that is in IDLE, TX or PROC only takes
\* one off receiving_count and logs the outcome of the copy, which is
\* CORRUPTED: the state, current packet, queue and timeout_event of the
\* node, the other nodes, the packets and the other pending events are as
\* they were, no event is constructed and none is cancelled, also when
\* receiving_count was 1.
C37_EndRxOutsideRx ==
    [][\A n \in DOMAIN nodes :
         (DispatchedTo(n, "END_RX") /\ nodes[n].state \in {"IDLE", "TX", "PROC"})
         => /\ halted' = "none"
            /\ nodes' = [nodes EXCEPT ![n].receiving_count = @ - 1]
            /\ pkts' = pkts
            /\ events' = events
            /\ NewEvents = {}
            /\ cancelled' = cancelled
            /\ Range(queue') = Pending \ {Ref(ret')}
            /\ PendingOf(n, "END_PROC")' = PendingOf(n, "END_PROC")
            /\ log' = << [time |-> time', src |-> events[Ref(ret')].src,
                          dst |-> n, event |-> "CORRUPTED",
                          size |-> pkts[Ref(events[Ref(ret')].obj)].size] >>]_vars

\* the END_RX of the only frame in the air has been handled by an idle
\* node: the node is idle with receiving_count 0, no END_PROC is pending
\* for it and the row logged is CORRUPTED
C37_Witness ==
    /\ ret # None
    /\ halted = "none"
    /\ events[Ref(ret)].type = "END_RX"
    /\ LET n == events[Ref(ret)].dst
       IN  /\ nodes[n].state = "IDLE"
           /\ nodes[n].receiving_count = 0
           /\ PendingOf(n, "END_PROC") = {}
           /\ Len(log) = 1
           /\ log[1].event = "CORRUPTED"



(***************************************************************************)
(* Packet ids at a receiver (Spec).                                        *)
(***************************************************************************)
\* the ids of the packets node n has transmitted
TxIds(n) ==
    {pkts[Ref(events[i].obj)].id :
        i \in {j \in DOMAIN events : /\ events[j].type = "END_TX"
                                     /\ events[j].dst = n}}

\* the START_RX and END_RX events constructed for node n
RxEvents(n) ==
    {i \in DOMAIN events : /\ events[i].type \in {"START_RX", "END_RX"}
                           /\ events[i].dst = n}

\* C38: the packet objects constructed by one transmission, the original
\* of the sender and the copies for its neighbors, carry one packet id,
\* which no other transmission uses; no START_RX or END_RX event for a
\* node carries the id of a packet the node transmitted; the END_RX events
\* pending for a node carry different ids; so when the id of the copy of
\* an END_RX is that of the current packet of the node, the copy is the
\* current packet and the node is in RX, the assertions of handle_end_rx
\* hold, and a copy that is RECEIVING at its END_RX is the current packet.
C38_IdMatchingUnambiguous ==
    /\ [](\A n \in DOMAIN nodes :
             /\ \A i \in RxEvents(n) : pkts[Ref(events[i].obj)].id \notin TxIds(n)
             /\ \A i, j \in PendingEndRx(n) :
                   pkts[Ref(events[i].obj)].id = pkts[Ref(events[j].obj)].id
                      => i = j)
    /\ [][/\ \A q \in DOMAIN pkts' \ DOMAIN pkts :
                /\ pkts'[q].id = packets_count
                /\ packets_count' = packets_count + 1
          /\ \A q \in DOMAIN pkts : pkts'[q].id = pkts[q].id
          /\ \A n \in DOMAIN nodes :
                DispatchedTo(n, "END_RX") =>
                   LET p == Ref(events[Ref(ret')].obj)
                   IN  /\ halted' = "none"
                       /\ (/\ nodes[n].current_pkt # None
                           /\ pkts[p].id = pkts[Ref(nodes[n].current_pkt)].id)
                          => /\ nodes[n].state = "RX"
                             /\ nodes[n].current_pkt = Some(p)
                       /\ pkts[p].state = "RECEIVING" =>
                             nodes[n].current_pkt = Some(p)]_vars

\* a node that has transmitted has received a copy whole, its END_RX being
\* the event just handled: the copy has the id of the original the sender
\* keeps, another object, and not the id of a packet the node sent
C38_Witness ==
    /\ ret # None
    /\ events[Ref(ret)].type = "END_RX"
    /\ LET n == events[Ref(ret)].dst
           p == Ref(events[Ref(ret)].obj)
       IN  /\ pkts[p].state = "RECEIVED"
           /\ TxIds(n) # {}
           /\ \E q \in DOMAIN pkts :
                 /\ q # p
                 /\ pkts[q].id = pkts[p].id
                 /\ pkts[q].state = "RECEIVING"



(***************************************************************************)
(* The ways out of RX (Spec).                                              *)
(***************************************************************************)
\* C39: a node leaves RX only in the handling of an END_RX with
\* receiving_count 1 or of its RX_TIMEOUT; the END_RX of the frame it had
\* taken, handled while another frame is in the air (receiving_count at
\* least 2), leaves it in RX with current_pkt None and its RX_TIMEOUT
\* pending, no event constructed or cancelled; and a START_RX handled by a
\* node in RX with current_pkt None marks only the new copy CORRUPTED and
\* leaves the node in RX with its timeout pending.
C39_StaysInRxWhileFramesOverlap ==
    [][\A n \in DOMAIN nodes :
         /\ (nodes[n].state = "RX" /\ nodes'[n].state # "RX") =>
               \/ DispatchedTo(n, "END_RX") /\ nodes[n].receiving_count = 1
               \/ DispatchedTo(n, "RX_TIMEOUT")
         /\ (/\ DispatchedTo(n, "END_RX")
             /\ nodes[n].state = "RX"
             /\ nodes[n].current_pkt = events[Ref(ret')].obj
             /\ nodes[n].receiving_count >= 2) =>
               /\ halted' = "none"
               /\ nodes' = [nodes EXCEPT ![n].current_pkt = None,
                                         ![n].receiving_count = @ - 1]
               /\ nodes[n].timeout_event # None
               /\ Ref(nodes[n].timeout_event) \in Range(queue')
               /\ NewEvents = {}
               /\ cancelled' = cancelled
         /\ (/\ DispatchedTo(n, "START_RX")
             /\ nodes[n].state = "RX"
             /\ nodes[n].current_pkt = None) =>
               /\ OnlyCountsFrame(n)
               /\ nodes[n].timeout_event # None
               /\ Ref(nodes[n].timeout_event) \in Range(queue')]_vars

\* the frame a node had taken has ended while a frame that overlapped it
\* was in the air, and a third frame has just started: the node is in RX
\* with current_pkt None, two frames in the air and its timeout pending
C39_Witness ==
    /\ ret # None
    /\ halted = "none"
    /\ events[Ref(ret)].type = "START_RX"
    /\ LET n == events[Ref(ret)].dst
       IN  /\ nodes[n].state = "RX"
           /\ nodes[n].current_pkt = None
           /\ nodes[n].receiving_count >= 2
           /\ pkts[Ref(events[Ref(ret)].obj)].state = "CORRUPTED"
           /\ PendingOf(n, "RX_TIMEOUT") # {}

====
